---- MODULE Spec2Model ----
(***************************************************************************)
(* GridRush (src/main.js): level generation with a guaranteed route, the   *)
(* A* path finder it relies on, and the movement / collision rules of the  *)
(* game loop.                                                              *)
(*                                                                         *)
(* Grids are indexed as in the source, grid[y][x], 0 = open, 1 = wall.     *)
(* Math.random() is a value k / RandDen read from a tape that the handler  *)
(* consumes draw by draw, in the order of the source.                      *)
(***************************************************************************)
EXTENDS Integers, Sequences, FiniteSets, TLC

VARIABLES
    score,           \* gameState.score
    lives,           \* gameState.lives
    level,           \* gameState.level
    isGameOver,      \* gameState.isGameOver
    isPlaying,       \* gameState.isPlaying
    grid,            \* gameState.grid
    visitedTiles,    \* gameState.visitedTiles
    playerPosition,  \* gameState.playerPosition
    goalPosition,    \* gameState.goalPosition
    projectiles,     \* gameState.projectiles
    enemies,         \* gameState.enemies
    startOverlayHidden,     \* startOverlay.classList has 'hidden'
    gameoverOverlayHidden,  \* gameoverOverlay.classList has 'hidden'
    scoreDisplay,           \* the number that scoreDisplay.textContent shows
    finalScoreDisplay,      \* the number that finalScoreDisplay.textContent shows
    animationFrames, \* callbacks of requestAnimationFrame(animate) not yet run
    ticks,           \* frames that moved or spawned something on this level
    call             \* a function run by itself: its arguments, then its result

vars == << score, lives, level, isGameOver, isPlaying, grid, visitedTiles,
           playerPosition, goalPosition, projectiles, enemies,
           startOverlayHidden, gameoverOverlayHidden, scoreDisplay,
           finalScoreDisplay, animationFrames, ticks, call >>

gameVars == << score, lives, level, isGameOver, isPlaying, visitedTiles,
               playerPosition, goalPosition, projectiles, enemies,
               startOverlayHidden, gameoverOverlayHidden, scoreDisplay,
               finalScoreDisplay, animationFrames, ticks >>

----------------------------------------------------------------------------
(* GAME_CONFIG *)

gridSize == 10
initialLives == 3
initialScore == 1000
stepPenalty == 10
deathPenalty == 100
projectileSpeed == 30    \* 0.03 tile per frame, in thousandths of a tile
enemySpeed == 15         \* 0.015 tile per frame, in thousandths of a tile
tileSize == 1000         \* 1 tile, in thousandths of a tile

----------------------------------------------------------------------------
(* Bounds of the model *)

PathSize == 3        \* side of the grids the path finder is run on by itself
MaxWalls == 2        \* walls on those grids
RandDen == 4         \* Math.random() takes the values 0/RandDen .. (RandDen-1)/RandDen
TapeLen == 3         \* period of the draws of one level generation run by itself
MaxLevel == 6        \* levels generated by themselves
GameTapeLen == 1     \* period of the draws of one handler of the running game
MaxSteps == 9        \* accepted moves of one game
MaxFrames == 3       \* frames per level that move or spawn something
MaxLoops == 2        \* pending callbacks of animate
MaxGames == 2        \* games started since the page was loaded
MaxStepsAgain == 2   \* accepted moves of a game after the first
HazardTapeLen == 2   \* draws of Math.random() a frame of the second level can tell apart
HazardSteps == 2     \* accepted moves on the second level
MaxRoundTrips == 50  \* trips from the start to a neighbour and back before the moves explored
ScoreSteps == 2      \* accepted moves after those trips
StepTapeLen == 1     \* period of the draws of a generation run step by step
HazardFrames == 3    \* frames of the second level that move or spawn something
MaxClock == 70       \* half seconds of page loading explored
MaxErrors == 1       \* events of the global error handlers while the page loads
FlashSteps == 2      \* accepted moves while the colour of the player is followed
FlashFrames == 1     \* frames that move or spawn something meanwhile
WindingSteps == 3    \* accepted moves on the fifth level
WindingFrames == 2   \* frames of the fifth level that move or spawn something

----------------------------------------------------------------------------
(* Small helpers *)

Abs(n) == IF n < 0 THEN -n ELSE n

Max(a, b) == IF a > b THEN a ELSE b

Pos(px, py) == [x |-> px, y |-> py]

Reverse(s) == [i \in 1..Len(s) |-> s[Len(s) + 1 - i]]

\* Array.prototype.splice(index, 1) on a 1-based sequence
RemoveAt(s, i) == [j \in 1..(Len(s) - 1) |-> IF j < i THEN s[j] ELSE s[j + 1]]

\* a size x size grid with every cell open
emptyGrid(size) == [y \in 0..(size - 1) |-> [x \in 0..(size - 1) |-> 0]]

\* mutation: the write of an open cell is lost
openCellLost(g, x, y) == g

\* "gameState.grid[y][x] = 0"
openCell(g, x, y) == [g EXCEPT ![y][x] = 0]

\* "gameState.grid[y][x] = 1"
closeCell(g, x, y) == [g EXCEPT ![y][x] = 1]

\* "gameState.grid.map(row => [...row])": the rows copied cell by cell into a
\* table ("@@" makes TLC build each function at once, not at every look-up)
copyOfGrid(g) == [y \in DOMAIN g |-> g[y] @@ << >>] @@ << >>

----------------------------------------------------------------------------
(* findPath: A* over the 4-connected grid *)

\* A node of the open set.  The parent link of the source always points to a
\* closed node, which is never changed again, so a node carries the chain of
\* its ancestors as the list of positions from itself back to the start.
PathNode(px, py, g, h, f, chain) ==
    [x |-> px, y |-> py, g |-> g, h |-> h, f |-> f, chain |-> chain]

directions == << Pos(1, 0), Pos(-1, 0), Pos(0, 1), Pos(0, -1) >>

\* mutation: the node with the highest f score is expanded
highestIndexOf(openSet) ==
    CHOOSE i \in 1..Len(openSet) :
        \A j \in 1..Len(openSet) :
            \/ openSet[i].f > openSet[j].f
            \/ (openSet[i].f = openSet[j].f /\ i <= j)

\* "Find node with lowest f score": the first index holding the least f
lowestIndexOf(openSet) ==
    CHOOSE i \in 1..Len(openSet) :
        \A j \in 1..Len(openSet) :
            \/ openSet[i].f < openSet[j].f
            \/ (openSet[i].f = openSet[j].f /\ i <= j)

inBounds(size, px, py) == px >= 0 /\ px < size /\ py >= 0 /\ py < size

\* mutation: the wall test is dropped
skipNeighborIgnoringWalls(gridCopy, visited, nx, ny) == <<nx, ny>> \in visited

\* "Skip if wall or in closed set"
skipNeighbor(gridCopy, visited, nx, ny) ==
    gridCopy[ny][nx] = 1 \/ <<nx, ny>> \in visited

\* index of the open node at (nx, ny), 0 when there is none
openIndex(openSet, nx, ny) ==
    IF \E i \in 1..Len(openSet) : openSet[i].x = nx /\ openSet[i].y = ny
    THEN CHOOSE i \in 1..Len(openSet) :
             /\ openSet[i].x = nx /\ openSet[i].y = ny
             /\ \A j \in 1..(i - 1) : ~(openSet[j].x = nx /\ openSet[j].y = ny)
    ELSE 0

\* one pass of the body of "for (const dir of directions)"
visitNeighbor(gridCopy, size, openSet, visited, current, dir, endX, endY) ==
    LET neighborX == current.x + dir.x
        neighborY == current.y + dir.y
    IN  IF ~inBounds(size, neighborX, neighborY) THEN openSet
        ELSE IF skipNeighbor(gridCopy, visited, neighborX, neighborY) THEN openSet
        ELSE LET g == current.g + 1
                 h == Abs(neighborX - endX) + Abs(neighborY - endY)
                 f == g + h
                 chain == <<Pos(neighborX, neighborY)>> \o current.chain
                 idx == openIndex(openSet, neighborX, neighborY)
             IN  IF idx # 0
                 THEN IF g < openSet[idx].g
                      THEN [openSet EXCEPT ![idx] =
                               PathNode(neighborX, neighborY, g, openSet[idx].h, f, chain)]
                      ELSE openSet
                 ELSE Append(openSet, PathNode(neighborX, neighborY, g, h, f, chain))

RECURSIVE visitNeighbors(_, _, _, _, _, _, _, _)
visitNeighbors(gridCopy, size, openSet, visited, current, d, endX, endY) ==
    IF d > Len(directions) THEN openSet
    ELSE visitNeighbors(gridCopy, size,
             visitNeighbor(gridCopy, size, openSet, visited, current,
                           directions[d], endX, endY),
             visited, current, d + 1, endX, endY)

\* mutation: "while (temp.parent !== null)", the start is left out
reconstructPathWithoutStart(current) == Tail(Reverse(current.chain))

\* mutation: the final reverse() is forgotten
reconstructPathNotReversed(current) == current.chain

\* "Reconstruct path": follow the parent links back to the start, then reverse
reconstructPath(current) == Reverse(current.chain)

\* the state of the search between two passes of "while (openSet.length > 0)"
SearchState(openSet, visited, done, path) ==
    [openSet |-> openSet, visited |-> visited, done |-> done, path |-> path]

\* one pass of the while loop (a finished search is left as it is)
searchStep(gridCopy, size, s, endX, endY) ==
    IF s.done THEN s
    ELSE IF Len(s.openSet) = 0 THEN SearchState(s.openSet, s.visited, TRUE, << >>)
    ELSE LET lowestIndex == lowestIndexOf(s.openSet)
             current == s.openSet[lowestIndex]
         IN  IF current.x = endX /\ current.y = endY
             THEN SearchState(s.openSet, s.visited, TRUE, reconstructPath(current))
             ELSE LET visited1 == s.visited \cup {<<current.x, current.y>>}
                  IN  SearchState(
                          visitNeighbors(gridCopy, size, RemoveAt(s.openSet, lowestIndex),
                                         visited1, current, 1, endX, endY),
                          visited1, FALSE, << >>)

\* n passes of the while loop, stopping at the first return
RECURSIVE searchLoop(_, _, _, _, _, _)
searchLoop(gridCopy, size, s, n, endX, endY) ==
    IF n <= 1 THEN searchStep(gridCopy, size, s, endX, endY)
    ELSE LET half == n \div 2
             s1 == searchLoop(gridCopy, size, s, half, endX, endY)
         IN  IF s1.done THEN s1
             ELSE searchLoop(gridCopy, size, s1, n - half, endX, endY)

\* Every pass closes one more cell, so size * size + 1 passes end the loop.
findPath(g, size, startX, startY, endX, endY) ==
    CHOOSE path \in
        { searchLoop(gridCopy, size,
                     SearchState(<< PathNode(startX, startY, 0, 0, 0,
                                             <<Pos(startX, startY)>>) >>,
                                 {}, FALSE, << >>),
                     size * size + 1, endX, endY).path :
          gridCopy \in {copyOfGrid(g)} } : TRUE

\* whether the while loop has returned within size * size + 1 passes
searchEnds(g, size, startX, startY, endX, endY) ==
    \E gridCopy \in {copyOfGrid(g)} :
        searchLoop(gridCopy, size,
                   SearchState(<< PathNode(startX, startY, 0, 0, 0,
                                           <<Pos(startX, startY)>>) >>,
                               {}, FALSE, << >>),
                   size * size + 1, endX, endY).done

\* the cells the search has closed when it returns
closedBySearch(g, size, startX, startY, endX, endY) ==
    searchLoop(g, size,
               SearchState(<< PathNode(startX, startY, 0, 0, 0, <<Pos(startX, startY)>>) >>,
                           {}, FALSE, << >>),
               size * size + 1, endX, endY).visited

\* mutation: the closed cells are marked in gameState.grid itself
gridMarkedBySearch(g, size, startX, startY, endX, endY) ==
    [y \in 0..(size - 1) |-> [x \in 0..(size - 1) |->
        IF <<x, y>> \in closedBySearch(g, size, startX, startY, endX, endY)
        THEN 1 ELSE g[y][x]]]

\* gameState.grid as findPath leaves it: the search reads gridCopy, a copy
\* row by row, and writes only its own visited, openSet and closedSet
gridAfterFindPath(g, size, startX, startY, endX, endY) == g

----------------------------------------------------------------------------
(* Math.random(): the draw number ri of a handler reads the tape cyclically *)

TapesOf(len) == [1..len -> 0..(RandDen - 1)]

rnd(tape, ri) == tape[(ri % Len(tape)) + 1]

\* "Math.random() < pct / 100"
randomBelow(tape, ri, pct) == rnd(tape, ri) * 100 < pct * RandDen

\* "Math.floor(Math.random() * k)"
randomInt(tape, ri, k) == (rnd(tape, ri) * k) \div RandDen

\* the grid under construction and the number of draws made so far
GenState(g, ri) == [grid |-> copyOfGrid(g), ri |-> ri]

\* A loop that visits the cells of `cells` in order and makes one draw for
\* each: "if (Math.random() < pct / 100) gameState.grid[y][x] = 1"
wallsFromDraws(st, tape, size, cells, pct) ==
    LET hit == { cells[j] : j \in { i \in 1..Len(cells) :
                                       randomBelow(tape, st.ri + i - 1, pct) } }
    IN  GenState([y \in 0..(size - 1) |-> [x \in 0..(size - 1) |->
                     IF <<x, y>> \in hit THEN 1 ELSE st.grid[y][x]]],
                 st.ri + Len(cells))

----------------------------------------------------------------------------
(* validatePath: the L-shaped fallback *)

\* mutation: "Make sure the end is clear" is left out
carveDirectPathWithoutEnd(g, size, startX, startY, endX, endY) ==
    LET dx == IF endX > startX THEN 1 ELSE -1
        dy == IF endY > startY THEN 1 ELSE -1
        onRow(x) == x # endX /\ (x - startX) * dx >= 0 /\ (endX - x) * dx >= 0
        onCol(y) == y # endY /\ (y - startY) * dy >= 0 /\ (endY - y) * dy >= 0
    IN  [y \in 0..(size - 1) |-> [x \in 0..(size - 1) |->
            IF (y = startY /\ onRow(x)) \/ (x = endX /\ onCol(y)) THEN 0 ELSE g[y][x]]]

\* "First horizontal then vertical", then "Make sure the end is clear"
carveDirectPath(g, size, startX, startY, endX, endY) ==
    LET dx == IF endX > startX THEN 1 ELSE -1
        dy == IF endY > startY THEN 1 ELSE -1
        onRow(x) == x # endX /\ (x - startX) * dx >= 0 /\ (endX - x) * dx >= 0
        onCol(y) == y # endY /\ (y - startY) * dy >= 0 /\ (endY - y) * dy >= 0
        cleared == { c \in (0..(size - 1)) \X (0..(size - 1)) :
                        \/ c[2] = startY /\ onRow(c[1])
                        \/ c[1] = endX /\ onCol(c[2])
                        \/ c[1] = endX /\ c[2] = endY }
        RECURSIVE clear(_, _)
        clear(gg, cs) ==
            IF cs = {} THEN gg
            ELSE LET c == CHOOSE c \in cs : TRUE
                 IN  clear(openCell(gg, c[1], c[2]), cs \ {c})
    IN  clear(g, cleared)

\* mutation: no repair when no path is found
validatePathWithoutRepair(g, size, startX, startY, endX, endY) == g

\* mutation: the direct path is cleared whether or not a path was found
validatePathAlwaysClearing(g, size, startX, startY, endX, endY) ==
    carveDirectPath(g, size, startX, startY, endX, endY)

validatePath(g, size, startX, startY, endX, endY) ==
    IF Len(findPath(g, size, startX, startY, endX, endY)) = 0
    THEN carveDirectPath(g, size, startX, startY, endX, endY)
    ELSE g

----------------------------------------------------------------------------
(* generateSimpleMaze *)

tilesOf(path) == { <<path[i].x, path[i].y>> : i \in 1..Len(path) }

\* "Create walls but leave the path clear"
simplePattern(g, lvl, size, visited, endX, endY) ==
    [y \in 0..(size - 1) |-> [x \in 0..(size - 1) |->
        IF <<x, y>> \in visited THEN g[y][x]
        ELSE IF (x < 2 /\ y < 2) \/ (Abs(x - endX) < 2 /\ Abs(y - endY) < 2)
             THEN g[y][x]
        ELSE IF lvl = 1
             THEN (IF (x + y) % 3 = 0 THEN 1 ELSE g[y][x])
             ELSE (IF (x * y) % 4 = 0 \/ (x + y) % 5 = 0 THEN 1 ELSE g[y][x])]]

\* mutation: a neighbour that lies on the path is a candidate too
placeAdjacentWallsOnPath(st, tape, size, path, tiles, first, last, pct) ==
    LET n == IF last >= first THEN last - first + 1 ELSE 0
        adjacentPoints == [k \in 1..(4 * n) |->
            LET point == path[first + ((k - 1) \div 4) + 1]
                dir == directions[((k - 1) % 4) + 1]
            IN  <<point.x + dir.x, point.y + dir.y>>]
        candidate(c) == inBounds(size, c[1], c[2])
    IN  wallsFromDraws(st, tape, size, SelectSeq(adjacentPoints, candidate), pct)

\* Walls next to the path points path[first..last] (0-based), each with
\* chance pct %: the four neighbours in the order right, left, down, up; a
\* neighbour outside the grid or on the path costs no draw.
placeAdjacentWalls(st, tape, size, path, tiles, first, last, pct) ==
    LET n == IF last >= first THEN last - first + 1 ELSE 0
        adjacentPoints == [k \in 1..(4 * n) |->
            LET point == path[first + ((k - 1) \div 4) + 1]
                dir == directions[((k - 1) % 4) + 1]
            IN  <<point.x + dir.x, point.y + dir.y>>]
        candidate(c) == inBounds(size, c[1], c[2]) /\ c \notin tiles
    IN  wallsFromDraws(st, tape, size, SelectSeq(adjacentPoints, candidate), pct)

generateSimpleMaze(st, tape, lvl, size, startX, startY, endX, endY) ==
    LET path == findPath(st.grid, size, startX, startY, endX, endY)
    IN  IF Len(path) > 0
        THEN LET visited == tilesOf(path)
                 g1 == simplePattern(st.grid, lvl, size, visited, endX, endY)
             IN  placeAdjacentWalls(GenState(g1, st.ri), tape, size, path, visited,
                                    1, Len(path) - 2, 50)
        ELSE st

----------------------------------------------------------------------------
(* generateRoomMaze *)

\* mutation: the grid's first row and first column are not dividing walls
roomWallsInside(g, size, roomSize) ==
    [y \in 0..(size - 1) |-> [x \in 0..(size - 1) |->
        IF (x > 0 /\ x % roomSize = 0) \/ (y > 0 /\ y % roomSize = 0)
        THEN 1 ELSE g[y][x]]]

\* "Create walls at room boundaries"
roomWalls(g, size, roomSize) ==
    [y \in 0..(size - 1) |-> [x \in 0..(size - 1) |->
        IF x % roomSize = 0 \/ y % roomSize = 0 THEN 1 ELSE g[y][x]]]

\* "Create doors between rooms": room r is (roomX, roomY) = (r % 3, r \div 3).
\* (st.ri is never negative: the test makes TLC evaluate st at each pass of a
\* loop and not all passes at its end; the same in the loops below.)
RECURSIVE roomDoors(_, _, _, _)
roomDoors(st, tape, roomSize, r) ==
    IF r > 8 \/ st.ri < 0 THEN st
    ELSE LET roomY == r \div 3
             roomX == r % 3
             st1 == IF roomX < 2
                    THEN LET doorY == (roomY * roomSize)
                                      + randomInt(tape, st.ri, roomSize - 2) + 1
                             doorX == (roomX + 1) * roomSize
                         IN  GenState(openCell(st.grid, doorX, doorY), st.ri + 1)
                    ELSE st
             st2 == IF roomY < 2
                    THEN LET doorX == (roomX * roomSize)
                                      + randomInt(tape, st1.ri, roomSize - 2) + 1
                             doorY == (roomY + 1) * roomSize
                         IN  GenState(openCell(st1.grid, doorX, doorY), st1.ri + 1)
                    ELSE st1
         IN  roomDoors(st2, tape, roomSize, r + 1)

\* mutation: the cluster cell may lie on a dividing wall
placeObstacleOnDivider(st, tape, size, roomSize, roomX, roomY, startX, startY, endX, endY) ==
    LET obsX == (roomX * roomSize) + randomInt(tape, st.ri, roomSize - 2) + 1
        obsY == (roomY * roomSize) + randomInt(tape, st.ri + 1, roomSize - 2) + 1
    IN  IF (obsX = startX /\ obsY = startY) \/ (obsX = endX /\ obsY = endY)
        THEN GenState(st.grid, st.ri + 2)
        ELSE LET g1 == closeCell(st.grid, obsX, obsY)
             IN  IF randomBelow(tape, st.ri + 2, 40)
                 THEN LET adjX == obsX + (IF randomBelow(tape, st.ri + 3, 50)
                                          THEN 1 ELSE -1)
                          adjY == obsY
                      IN  GenState(
                            IF /\ adjX > 0 /\ adjX < size
                               /\ ~(adjX = startX /\ adjY = startY)
                               /\ ~(adjX = endX /\ adjY = endY)
                            THEN closeCell(g1, adjX, adjY) ELSE g1,
                            st.ri + 4)
                 ELSE GenState(g1, st.ri + 3)

\* one obstacle of a room, with its possible cluster cell
placeObstacle(st, tape, size, roomSize, roomX, roomY, startX, startY, endX, endY) ==
    LET obsX == (roomX * roomSize) + randomInt(tape, st.ri, roomSize - 2) + 1
        obsY == (roomY * roomSize) + randomInt(tape, st.ri + 1, roomSize - 2) + 1
    IN  IF (obsX = startX /\ obsY = startY) \/ (obsX = endX /\ obsY = endY)
        THEN GenState(st.grid, st.ri + 2)
        ELSE LET g1 == closeCell(st.grid, obsX, obsY)
             IN  IF randomBelow(tape, st.ri + 2, 40)
                 THEN LET adjX == obsX + (IF randomBelow(tape, st.ri + 3, 50)
                                          THEN 1 ELSE -1)
                          adjY == obsY
                      IN  GenState(
                            IF /\ adjX > 0 /\ adjX < size /\ adjX % roomSize # 0
                               /\ ~(adjX = startX /\ adjY = startY)
                               /\ ~(adjX = endX /\ adjY = endY)
                            THEN closeCell(g1, adjX, adjY) ELSE g1,
                            st.ri + 4)
                 ELSE GenState(g1, st.ri + 3)

\* "for (let i = 0; i < obstacleCount; i++)" in room r
RECURSIVE obstaclesOfRoom(_, _, _, _, _, _, _, _, _, _, _)
obstaclesOfRoom(st, tape, size, roomSize, r, i, obstacleCount, startX, startY, endX, endY) ==
    IF i >= obstacleCount \/ st.ri < 0 THEN st
    ELSE obstaclesOfRoom(
             placeObstacle(st, tape, size, roomSize, r % 3, r \div 3,
                           startX, startY, endX, endY),
             tape, size, roomSize, r, i + 1, obstacleCount,
             startX, startY, endX, endY)

\* "Add some random obstacles inside rooms": the rooms r = 0..8 in the order
\* of the two outer loops, each with its own draw of obstacleCount
RECURSIVE roomObstacles(_, _, _, _, _, _, _, _, _)
roomObstacles(st, tape, size, roomSize, r, startX, startY, endX, endY) ==
    IF r > 8 \/ st.ri < 0 THEN st
    ELSE roomObstacles(
             obstaclesOfRoom(GenState(st.grid, st.ri + 1), tape, size, roomSize, r, 0,
                             randomInt(tape, st.ri, 3) + 2, startX, startY, endX, endY),
             tape, size, roomSize, r + 1, startX, startY, endX, endY)

\* "Make sure there's a path from start to goal"
validatedRooms(st3, size, startX, startY, endX, endY) ==
    GenState(validatePath(st3.grid, size, startX, startY, endX, endY), st3.ri)

\* generateRoomMaze up to its call of validatePath
roomsBuilt(st, tape, size, startX, startY, endX, endY) ==
    LET roomSize == size \div 3
        st1 == GenState(roomWalls(st.grid, size, roomSize), st.ri)
        st2 == roomDoors(st1, tape, roomSize, 0)
    IN  roomObstacles(st2, tape, size, roomSize, 0, startX, startY, endX, endY)

generateRoomMaze(st, tape, size, startX, startY, endX, endY) ==
    validatedRooms(roomsBuilt(st, tape, size, startX, startY, endX, endY),
                   size, startX, startY, endX, endY)

----------------------------------------------------------------------------
(* generateSpiralMaze *)

\* "Create walls for this ring": the border cells of the square, x outer and
\* y inner, that lie in the grid and are neither start nor goal; 70 % each
ringWalls(st, tape, size, minX, maxX, minY, maxY, startX, startY, endX, endY) ==
    LET w == maxY - minY + 1
        square == [k \in 1..((maxX - minX + 1) * w) |->
                      <<minX + ((k - 1) \div w), minY + ((k - 1) % w)>>]
        candidate(c) ==
            /\ (c[1] = minX \/ c[1] = maxX \/ c[2] = minY \/ c[2] = maxY)
            /\ inBounds(size, c[1], c[2])
            /\ ~((c[1] = startX /\ c[2] = startY) \/ (c[1] = endX /\ c[2] = endY))
    IN  wallsFromDraws(st, tape, size, SelectSeq(square, candidate), 70)

\* the ring's four draws made, no cell opened
ringOpeningsSkipped(st, tape, size, minX, maxX, minY, maxY) ==
    GenState(st.grid, st.ri + 4)

\* "Ensure there's at least one opening in each wall of the ring"
ringOpenings(st, tape, size, minX, maxX, minY, maxY) ==
    LET topX == minX + randomInt(tape, st.ri, maxX - minX)
        g1 == IF inBounds(size, topX, minY) THEN openCell(st.grid, topX, minY)
              ELSE st.grid
        rightY == minY + randomInt(tape, st.ri + 1, maxY - minY)
        g2 == IF inBounds(size, maxX, rightY) THEN openCell(g1, maxX, rightY) ELSE g1
        bottomX == minX + randomInt(tape, st.ri + 2, maxX - minX)
        g3 == IF inBounds(size, bottomX, maxY) THEN openCell(g2, bottomX, maxY) ELSE g2
        leftY == minY + randomInt(tape, st.ri + 3, maxY - minY)
        g4 == IF inBounds(size, minX, leftY) THEN openCell(g3, minX, leftY) ELSE g3
    IN  GenState(g4, st.ri + 4)

RECURSIVE spiralRings(_, _, _, _, _, _, _, _, _, _)
spiralRings(st, tape, size, center, ring, rings, startX, startY, endX, endY) ==
    IF ring > rings \/ st.ri < 0 THEN st
    ELSE LET minX == center - ring
             maxX == center + ring
             st1 == ringWalls(st, tape, size, minX, maxX, minX, maxX,
                              startX, startY, endX, endY)
             st2 == ringOpenings(st1, tape, size, minX, maxX, minX, maxX)
         IN  spiralRings(st2, tape, size, center, ring + 1, rings,
                         startX, startY, endX, endY)

\* generateSpiralMaze when the loop over the rings has ended
spiralBuilt(st, tape, size, startX, startY, endX, endY) ==
    spiralRings(st, tape, size, size \div 2, 1, size \div 2,
                startX, startY, endX, endY)

\* "Make sure there's a path from start to goal"
validatedSpiral(st1, size, startX, startY, endX, endY) ==
    GenState(validatePath(st1.grid, size, startX, startY, endX, endY), st1.ri)

generateSpiralMaze(st, tape, size, startX, startY, endX, endY) ==
    validatedSpiral(spiralBuilt(st, tape, size, startX, startY, endX, endY),
                    size, startX, startY, endX, endY)

----------------------------------------------------------------------------
(* generateWindingMaze *)

Min(a, b) == IF a < b THEN a ELSE b

\* "[directions[i], directions[j]] = [directions[j], directions[i]]", 0-based
swap(dirs, i, j) ==
    [k \in 1..Len(dirs) |->
        IF k = i + 1 THEN dirs[j + 1] ELSE IF k = j + 1 THEN dirs[i + 1] ELSE dirs[k]]

\* "Shuffle directions": i = 3, 2, 1 with one draw each
shuffled(tape, ri) ==
    LET d3 == swap(directions, 3, randomInt(tape, ri, 4))
        d2 == swap(d3, 2, randomInt(tape, ri + 1, 3))
    IN  swap(d2, 1, randomInt(tape, ri + 2, 2))

\* the detourLength points from `from` along dir
detourPointsOf(from, dir, detourLength) ==
    [k \in 1..detourLength |-> Pos(from.x + k * dir.x, from.y + k * dir.y)]

\* "Try each direction until we find a valid detour": the path with the first
\* valid detour spliced in after index detourIndex (0-based)
RECURSIVE tryDirections(_, _, _, _, _, _, _)
tryDirections(windingPath, dirs, d, detourStart, detourLength, detourIndex, size) ==
    IF d > Len(dirs) THEN windingPath
    ELSE LET detourPoints == detourPointsOf(detourStart, dirs[d], detourLength)
             validDetour == \A k \in 1..detourLength :
                                inBounds(size, detourPoints[k].x, detourPoints[k].y)
             detourBackPoints == Reverse(SubSeq(detourPoints, 1, detourLength - 1))
         IN  IF validDetour
             THEN SubSeq(windingPath, 1, Min(detourIndex + 1, Len(windingPath)))
                  \o detourPoints \o detourBackPoints
                  \o SubSeq(windingPath, detourIndex + 2, Len(windingPath))
             ELSE tryDirections(windingPath, dirs, d + 1, detourStart, detourLength,
                                detourIndex, size)

RECURSIVE addDetours(_, _, _, _, _, _, _)
addDetours(windingPath, directPath, tape, ri, size, d, numDetours) ==
    IF d >= numDetours THEN [path |-> windingPath, ri |-> ri]
    ELSE LET minIndex == (Len(directPath) + 4) \div 5      \* Math.ceil(length * 0.2)
             maxIndex == (Len(directPath) * 4) \div 5      \* Math.floor(length * 0.8)
             detourIndex == minIndex + randomInt(tape, ri, maxIndex - minIndex)
             detourStart == directPath[detourIndex + 1]
             detourLength == randomInt(tape, ri + 1, 3) + 2
             dirs == shuffled(tape, ri + 2)
         IN  addDetours(tryDirections(windingPath, dirs, 1, detourStart, detourLength,
                                      detourIndex, size),
                        directPath, tape, ri + 5, size, d + 1, numDetours)

createWindingPath(directPath, tape, ri, size) ==
    IF Len(directPath) < 5 THEN [path |-> directPath, ri |-> ri]
    ELSE addDetours(directPath, directPath, tape, ri, size, 0,
                    Min(3, Len(directPath) \div 5))

\* mutation: the fill does not skip the cells around start and goal
densityFillWithoutBuffer(st, tape, size, lvl, pathTiles, startX, startY, endX, endY) ==
    LET cells == [k \in 1..(size * size) |-> <<(k - 1) % size, (k - 1) \div size>>]
        candidate(c) == c \notin pathTiles
    IN  wallsFromDraws(st, tape, size, SelectSeq(cells, candidate), 50 + 3 * lvl)

\* mutation: the fill does not skip the tiles of the path
densityFillOverPath(st, tape, size, lvl, pathTiles, startX, startY, endX, endY) ==
    LET cells == [k \in 1..(size * size) |-> <<(k - 1) % size, (k - 1) \div size>>]
        candidate(c) ==
            ~(\/ (Abs(c[1] - startX) <= 1 /\ Abs(c[2] - startY) <= 1)
              \/ (Abs(c[1] - endX) <= 1 /\ Abs(c[2] - endY) <= 1))
    IN  wallsFromDraws(st, tape, size, SelectSeq(cells, candidate), 50 + 3 * lvl)

\* "Fill a significant portion of the grid with walls": y outer and x inner,
\* skipping the path and the cells around start and goal; wall density
\* 0.5 + level * 0.03
densityFill(st, tape, size, lvl, pathTiles, startX, startY, endX, endY) ==
    LET cells == [k \in 1..(size * size) |-> <<(k - 1) % size, (k - 1) \div size>>]
        candidate(c) ==
            /\ c \notin pathTiles
            /\ ~(\/ (Abs(c[1] - startX) <= 1 /\ Abs(c[2] - startY) <= 1)
                 \/ (Abs(c[1] - endX) <= 1 /\ Abs(c[2] - endY) <= 1))
    IN  wallsFromDraws(st, tape, size, SelectSeq(cells, candidate), 50 + 3 * lvl)

\* generateWindingMaze up to its call of validatePath
windingWalls(st, tape, lvl, size, startX, startY, endX, endY) ==
    LET directPath == findPath(st.grid, size, startX, startY, endX, endY)
    IN  IF Len(directPath) > 0
        THEN LET winding == createWindingPath(directPath, tape, st.ri, size)
                 windingPath == winding.path
                 pathTiles == tilesOf(windingPath)
                 st1 == densityFill(GenState(st.grid, winding.ri), tape, size, lvl,
                                    pathTiles, startX, startY, endX, endY)
             IN  placeAdjacentWalls(st1, tape, size, windingPath, pathTiles,
                                    2, Len(windingPath) - 3, 65)
        ELSE st

\* "Make sure there's a path from start to goal"
validated(st3, size, startX, startY, endX, endY) ==
    GenState(validatePath(st3.grid, size, startX, startY, endX, endY), st3.ri)

generateWindingMaze(st, tape, lvl, size, startX, startY, endX, endY) ==
    validated(windingWalls(st, tape, lvl, size, startX, startY, endX, endY),
              size, startX, startY, endX, endY)

----------------------------------------------------------------------------
(* generateComplexMaze, generateGrid *)

\* what a call of the generator `name` left: its state, and which one ran
called(name, st) == [generator |-> name, grid |-> st.grid, ri |-> st.ri]

\* mutation: the styles are counted from the level after this one
generateComplexMazeOfNextLevel(st, tape, lvl, size, startX, startY, endX, endY) ==
    LET mazeStyle == (lvl + 1) % 3
    IN  CASE mazeStyle = 0 ->
               called("generateRoomMaze",
                      generateRoomMaze(st, tape, size, startX, startY, endX, endY))
          [] mazeStyle = 1 ->
               called("generateSpiralMaze",
                      generateSpiralMaze(st, tape, size, startX, startY, endX, endY))
          [] mazeStyle = 2 ->
               called("generateWindingMaze",
                      generateWindingMaze(st, tape, lvl, size,
                                          startX, startY, endX, endY))

generateComplexMaze(st, tape, lvl, size, startX, startY, endX, endY) ==
    LET mazeStyle == lvl % 3
    IN  CASE mazeStyle = 0 ->
               called("generateRoomMaze",
                      generateRoomMaze(st, tape, size, startX, startY, endX, endY))
          [] mazeStyle = 1 ->
               called("generateSpiralMaze",
                      generateSpiralMaze(st, tape, size, startX, startY, endX, endY))
          [] mazeStyle = 2 ->
               called("generateWindingMaze",
                      generateWindingMaze(st, tape, lvl, size,
                                          startX, startY, endX, endY))

\* mutation: the first pair of draws is taken whatever its distance
resampleGoalTakingFirst(tape, ri, size, startX, startY, minDistance, fuel) ==
    [found |-> TRUE, x |-> randomInt(tape, ri, size - 2) + 1,
     y |-> randomInt(tape, ri + 1, size - 2) + 1, ri |-> ri + 2]

\* "do { ... } while (true)": the first pair of draws at Manhattan distance
\* >= minDistance from the start; found = FALSE when the tape never yields one
\* (the loop then does not end)
RECURSIVE resampleGoal(_, _, _, _, _, _, _)
resampleGoal(tape, ri, size, startX, startY, minDistance, fuel) ==
    LET x == randomInt(tape, ri, size - 2) + 1
        y == randomInt(tape, ri + 1, size - 2) + 1
    IN  IF Abs(x - startX) + Abs(y - startY) >= minDistance
        THEN [found |-> TRUE, x |-> x, y |-> y, ri |-> ri + 2]
        ELSE IF fuel = 0 THEN [found |-> FALSE, x |-> x, y |-> y, ri |-> ri + 2]
        ELSE resampleGoal(tape, ri + 2, size, startX, startY, minDistance, fuel - 1)

\* mutation: a threshold no position of the grid reaches
minDistanceBeyondGrid(size) == 2 * size

\* "let minDistance = Math.floor(size * 0.6)"
minDistance(size) == (size * 6) \div 10

\* "Set goal position based on level"
chooseGoal(tape, lvl, size, startX, startY) ==
    IF lvl = 1 THEN [found |-> TRUE, x |-> 4, y |-> 4, ri |-> 0]
    ELSE IF lvl = 2 THEN [found |-> TRUE, x |-> size - 2, y |-> 2, ri |-> 0]
    ELSE IF lvl = 3 THEN [found |-> TRUE, x |-> 2, y |-> size - 2, ri |-> 0]
    ELSE IF lvl = 4 THEN [found |-> TRUE, x |-> size - 3, y |-> size - 3, ri |-> 0]
    ELSE resampleGoal(tape, 0, size, startX, startY, minDistance(size), Len(tape))

\* "Always ensure start and goal positions are open"
openStartAndGoal(g, startX, startY, endX, endY) ==
    openCell(openCell(g, startX, startY), endX, endY)

\* The grid and goal a run of generateGrid leaves for level lvl under the draws
\* of tape; `goalDraws` is the number of draws the choice of the goal took,
\* `generator` the generator that ran and `maze` the grid as it left it,
\* before the final lines.
\* the end of generateGrid once the maze st1 of the level is built: start and
\* goal are opened and validatePath repairs the grid
generatedFrom(goal, st1, size, startX, startY) ==
    [ terminates |-> goal.found,
      goalPosition |-> Pos(goal.x, goal.y),
      goalDraws |-> goal.ri,
      generator |-> st1.generator,
      maze |-> st1.grid,
      ri |-> st1.ri,
      grid |-> validatePath(openStartAndGoal(st1.grid, startX, startY, goal.x, goal.y),
                            size, startX, startY, goal.x, goal.y) ]

\* generateGrid from "Create the maze based on the level" on, the goal chosen
generateGridWithGoal(goal, tape, lvl, size) ==
    LET startX == 0
        startY == 0
        st0 == GenState(emptyGrid(size), goal.ri)
    IN  generatedFrom(
            goal,
            IF lvl <= 2
            THEN called("generateSimpleMaze",
                        generateSimpleMaze(st0, tape, lvl, size,
                                           startX, startY, goal.x, goal.y))
            ELSE generateComplexMaze(st0, tape, lvl, size, startX, startY, goal.x, goal.y),
            size, startX, startY)

generateGrid(tape, lvl, size) ==
    generateGridWithGoal(chooseGoal(tape, lvl, size, 0, 0), tape, lvl, size)

----------------------------------------------------------------------------
(* The path finder run by itself on small grids *)

PathCells == (0..(PathSize - 1)) \X (0..(PathSize - 1))

WallSets == { w \in SUBSET PathCells : Cardinality(w) <= MaxWalls }

gridOfWalls(size, w) ==
    [y \in 0..(size - 1) |-> [x \in 0..(size - 1) |->
        IF <<x, y>> \in w THEN 1 ELSE 0]]

\* the game fields as the script leaves them before the game is started
IdleGame(lvl) ==
    /\ score = initialScore
    /\ lives = initialLives
    /\ level = lvl
    /\ isGameOver = FALSE
    /\ isPlaying = FALSE
    /\ visitedTiles = {}
    /\ playerPosition = Pos(0, 0)
    /\ goalPosition = Pos(0, 0)
    /\ projectiles = << >>
    /\ enemies = << >>
    /\ startOverlayHidden = FALSE
    /\ gameoverOverlayHidden = TRUE
    /\ scoreDisplay = 1000         \* <span id="score">1000</span>
    /\ finalScoreDisplay = 0       \* <span id="final-score">0</span>
    /\ animationFrames = 0
    /\ ticks = 0

PathInit ==
    /\ IdleGame(1)
    /\ \E w \in WallSets : grid = gridOfWalls(PathSize, w)
    /\ \E s \in PathCells, e \in PathCells :
           call = [op |-> "findPath", state |-> "called", startX |-> s[1], startY |-> s[2],
                 endX |-> e[1], endY |-> e[2], path |-> << >>, again |-> << >>]

RunFindPath ==
    /\ call.state = "called"
    /\ call' = [call EXCEPT !.state = "returned",
                        !.path = findPath(grid, PathSize, call.startX, call.startY,
                                          call.endX, call.endY)]
    /\ grid' = gridAfterFindPath(grid, PathSize, call.startX, call.startY,
                                 call.endX, call.endY)
    /\ UNCHANGED gameVars

\* the same call once more, on the grid the first call left
RunFindPathAgain ==
    /\ call.state = "returned"
    /\ call' = [call EXCEPT !.state = "repeated",
                        !.again = findPath(grid, PathSize, call.startX, call.startY,
                                           call.endX, call.endY)]
    /\ grid' = gridAfterFindPath(grid, PathSize, call.startX, call.startY,
                                 call.endX, call.endY)
    /\ UNCHANGED gameVars

\* validatePath on the same grid and end points; `path` is its local path
RunValidatePath ==
    /\ call.state = "called"
    /\ call' = [call EXCEPT !.state = "validated",
                        !.path = findPath(grid, PathSize, call.startX, call.startY,
                                          call.endX, call.endY)]
    /\ grid' = validatePath(grid, PathSize, call.startX, call.startY,
                            call.endX, call.endY)
    /\ UNCHANGED gameVars

PathNext == RunFindPath \/ RunFindPathAgain \/ RunValidatePath

PathSpec == PathInit /\ [][PathNext]_vars

----------------------------------------------------------------------------
(* generateGrid run by itself for the levels 1..MaxLevel *)

GenInit ==
    /\ \E lvl \in 1..MaxLevel : IdleGame(lvl)
    /\ grid = << >>
    /\ call = [op |-> "generateGrid", state |-> "called", goalDraws |-> 0,
               generator |-> "", maze |-> << >>, tape |-> << >>]

RunGenerateGrid ==
    /\ call.state = "called"
    /\ \E tape \in TapesOf(TapeLen) :
          \E r \in {generateGrid(tape, level, gridSize)} :
              /\ r.terminates
              /\ grid' = r.grid
              /\ goalPosition' = r.goalPosition
              /\ call' = [call EXCEPT !.state = "returned", !.goalDraws = r.goalDraws,
                                      !.generator = r.generator,
                                      !.maze = r.maze, !.tape = tape]
    /\ UNCHANGED << score, lives, level, isGameOver, isPlaying, visitedTiles,
                    playerPosition, projectiles, enemies, startOverlayHidden,
                    gameoverOverlayHidden, scoreDisplay,
                    finalScoreDisplay, animationFrames, ticks >>

GenNext == RunGenerateGrid

GenSpec == GenInit /\ [][GenNext]_vars

----------------------------------------------------------------------------
(* generateGrid step by step: each pass of the loop that draws the goal is a
   step with two fresh draws of Math.random(), the rest of the generation is
   one step *)

StepInit ==
    /\ \E lvl \in 1..MaxLevel : IdleGame(lvl)
    /\ grid = << >>
    /\ call = [op |-> "generateGrid", state |-> "choosing", x |-> 0, y |-> 0,
               rejected |-> FALSE, searchEnded |-> FALSE]

\* the goal of the levels 1 to 4
FixedGoal ==
    /\ call.state = "choosing"
    /\ level <= 4
    /\ \E tape \in TapesOf(1) :
          \E goal \in {chooseGoal(tape, level, gridSize, 0, 0)} :
              /\ goalPosition' = Pos(goal.x, goal.y)
              /\ call' = [call EXCEPT !.state = "chosen", !.x = goal.x, !.y = goal.y]
    /\ UNCHANGED << score, lives, level, isGameOver, isPlaying, grid, visitedTiles,
                    playerPosition, projectiles, enemies, startOverlayHidden,
                    gameoverOverlayHidden, scoreDisplay, finalScoreDisplay,
                    animationFrames, ticks >>

\* the position one pass of "do { ... } while (true)" draws
sampled(a, b) == Pos((a * (gridSize - 2)) \div RandDen + 1,
                     (b * (gridSize - 2)) \div RandDen + 1)

\* a pass whose position is too close to the start: the loop goes on
SampleGoalRejected ==
    /\ call.state = "choosing"
    /\ level >= 5
    /\ \E a \in 0..(RandDen - 1), b \in 0..(RandDen - 1) :
          \E p \in {sampled(a, b)} :
              /\ Abs(p.x - 0) + Abs(p.y - 0) < minDistance(gridSize)
              /\ call' = [call EXCEPT !.x = p.x, !.y = p.y, !.rejected = TRUE]
    /\ UNCHANGED << score, lives, level, isGameOver, isPlaying, grid, visitedTiles,
                    playerPosition, goalPosition, projectiles, enemies,
                    startOverlayHidden, gameoverOverlayHidden, scoreDisplay,
                    finalScoreDisplay, animationFrames, ticks >>

\* a pass whose position is far enough: "break"
SampleGoalAccepted ==
    /\ call.state = "choosing"
    /\ level >= 5
    /\ \E a \in 0..(RandDen - 1), b \in 0..(RandDen - 1) :
          \E p \in {sampled(a, b)} :
              /\ Abs(p.x - 0) + Abs(p.y - 0) >= minDistance(gridSize)
              /\ goalPosition' = p
              /\ call' = [call EXCEPT !.state = "chosen", !.x = p.x, !.y = p.y]
    /\ UNCHANGED << score, lives, level, isGameOver, isPlaying, grid, visitedTiles,
                    playerPosition, projectiles, enemies, startOverlayHidden,
                    gameoverOverlayHidden, scoreDisplay, finalScoreDisplay,
                    animationFrames, ticks >>

\* the goals the choice of the goal can end with on level lvl
stepGoals(lvl) ==
    IF lvl <= 4
    THEN { Pos(goal.x, goal.y) : goal \in {chooseGoal(<<0>>, lvl, gridSize, 0, 0)} }
    ELSE { p \in { sampled(a, b) : a \in 0..(RandDen - 1), b \in 0..(RandDen - 1) } :
             Abs(p.x - 0) + Abs(p.y - 0) >= minDistance(gridSize) }

\* the rest of generateGrid for the goal p under the draws of tape: the grid
\* it leaves, and whether the search of validatePath ended within its bound
builtGrid(p, tape, lvl) ==
    CHOOSE b \in
        { [grid |-> r.grid,
           searchEnded |-> searchEnds(openStartAndGoal(r.maze, 0, 0, p.x, p.y),
                                      gridSize, 0, 0, p.x, p.y)] :
          r \in {generateGridWithGoal([found |-> TRUE, x |-> p.x, y |-> p.y, ri |-> 0],
                                      tape, lvl, gridSize)} } : TRUE

StepTapes == TapesOf(StepTapeLen)

\* builtGrid for every level, goal and tape of a generation run step by step
builtGrids ==
    [lvl \in 1..MaxLevel |->
        [p \in stepGoals(lvl) |->
            [tape \in StepTapes |-> builtGrid(p, tape, lvl)] @@ << >>] @@ << >>] @@ << >>

\* the generator of the level, the opening of start and goal, validatePath
BuildMaze ==
    /\ call.state = "chosen"
    /\ \E tape \in StepTapes :
          \E b \in {builtGrids[level][goalPosition][tape]} :
              /\ grid' = b.grid
              /\ call' = [call EXCEPT !.state = "returned", !.rejected = FALSE,
                                      !.searchEnded = b.searchEnded]
    /\ UNCHANGED << score, lives, level, isGameOver, isPlaying, visitedTiles,
                    playerPosition, goalPosition, projectiles, enemies,
                    startOverlayHidden, gameoverOverlayHidden, scoreDisplay,
                    finalScoreDisplay, animationFrames, ticks >>

StepNext == FixedGoal \/ SampleGoalRejected \/ SampleGoalAccepted \/ BuildMaze

\* the script runs on, and the draws of Math.random() are fair: a position
\* that can be drawn in every pass is drawn in some pass
StepSpec ==
    /\ StepInit
    /\ [][StepNext]_vars
    /\ WF_vars(StepNext)
    /\ WF_vars(SampleGoalAccepted)

----------------------------------------------------------------------------
(* The game: each handler as a function of the world it reads and writes *)

world ==
    [ score |-> score, lives |-> lives, level |-> level,
      isGameOver |-> isGameOver, isPlaying |-> isPlaying, grid |-> grid,
      visitedTiles |-> visitedTiles, playerPosition |-> playerPosition,
      goalPosition |-> goalPosition, projectiles |-> projectiles,
      enemies |-> enemies, startOverlayHidden |-> startOverlayHidden,
      gameoverOverlayHidden |-> gameoverOverlayHidden,
      scoreDisplay |-> scoreDisplay, finalScoreDisplay |-> finalScoreDisplay,
      animationFrames |-> animationFrames ]

\* what a handler leaves: the world, the number of draws made so far, and
\* whether it returned (a retry loop that the draws never leave does not)
Outcome(w, ri, returned) == [w |-> w, ri |-> ri, returned |-> returned]

\* "Math.random() < num / den"
randomLess(tape, ri, num, den) == rnd(tape, ri) * den < num * RandDen

\* "Math.round(position)" of a position in thousandths of a tile
roundCell(p) == (p + tileSize \div 2) \div tileSize

\* "scoreDisplay.textContent = Math.max(0, gameState.score)"
updateScoreDisplay(w) == [w EXCEPT !.scoreDisplay = Max(0, w.score)]

\* the final score is written as it is: "finalScoreDisplay.textContent =
\* gameState.score"
gameOver(w) ==
    [w EXCEPT !.isGameOver = TRUE, !.isPlaying = FALSE,
              !.finalScoreDisplay = w.score,
              !.gameoverOverlayHidden = FALSE]

\* mutation: a collision costs a life but no points
handleCollisionWithoutPenalty(w) ==
    LET w1 == updateScoreDisplay([w EXCEPT !.lives = @ - 1])
    IN  IF w1.lives <= 0 THEN gameOver(w1) ELSE w1

handleCollision(w) ==
    LET w1 == updateScoreDisplay([w EXCEPT !.lives = @ - 1,
                                           !.score = @ - deathPenalty])
    IN  IF w1.lives <= 0 THEN gameOver(w1) ELSE w1

\* mutation: the visited test is made at every level
isValidMoveNoRevisitEver(w, x, y) ==
    IF ~inBounds(gridSize, x, y) THEN [valid |-> FALSE, w |-> w]
    ELSE IF w.grid[y][x] = 1 THEN [valid |-> FALSE, w |-> handleCollision(w)]
    ELSE IF <<x, y>> \in w.visitedTiles THEN [valid |-> FALSE, w |-> w]
    ELSE [valid |-> TRUE, w |-> w]

\* mutation: the wall that is hit is knocked down
isValidMoveBreakingWall(w, x, y) ==
    IF ~inBounds(gridSize, x, y) THEN [valid |-> FALSE, w |-> w]
    ELSE IF w.grid[y][x] = 1
         THEN [valid |-> FALSE,
               w |-> handleCollision([w EXCEPT !.grid = openCell(@, x, y)])]
    ELSE IF w.level >= 2 /\ <<x, y>> \in w.visitedTiles
         THEN [valid |-> FALSE, w |-> w]
    ELSE [valid |-> TRUE, w |-> w]

\* mutation: the edge of the grid is treated like a wall
isValidMoveEdgeIsWall(w, x, y) ==
    IF ~inBounds(gridSize, x, y) \/ w.grid[y][x] = 1
    THEN [valid |-> FALSE, w |-> handleCollision(w)]
    ELSE IF w.level >= 2 /\ <<x, y>> \in w.visitedTiles
         THEN [valid |-> FALSE, w |-> w]
    ELSE [valid |-> TRUE, w |-> w]

\* the verdict, and the world after the collision that a wall causes; the
\* key `${x},${y}` of a visited tile is the pair <<x, y>>
isValidMove(w, x, y) ==
    IF ~inBounds(gridSize, x, y) THEN [valid |-> FALSE, w |-> w]
    ELSE IF w.grid[y][x] = 1 THEN [valid |-> FALSE, w |-> handleCollision(w)]
    ELSE IF w.level >= 2 /\ <<x, y>> \in w.visitedTiles
         THEN [valid |-> FALSE, w |-> w]
    ELSE [valid |-> TRUE, w |-> w]

\* the levels a game of MaxSteps accepted moves can reach: no goal is nearer
\* than 6 steps to the start
GameLevels == 1..(1 + MaxSteps \div 6)

GameTapes == TapesOf(GameTapeLen)

\* generateGrid() for every level and every tape of the game, computed once:
\* "@@" makes each function an explicit table, so that a look-up does not run
\* generateGrid again
generatedGrids ==
    [lvl \in GameLevels |->
        [tape \in GameTapes |-> generateGrid(tape, lvl, gridSize)] @@ << >>] @@ << >>

\* mutation: the new level starts with an empty visited set
resetForLevelNotMarkingStart(w, r) ==
    Outcome([w EXCEPT !.grid = r.grid, !.goalPosition = r.goalPosition,
                      !.visitedTiles = {},
                      !.projectiles = << >>, !.enemies = << >>,
                      !.playerPosition = Pos(0, 0)],
            r.ri, r.terminates)

\* mutation: the new level keeps the player where the goal was
resetForLevelKeepingPlayer(w, r) ==
    Outcome([w EXCEPT !.grid = r.grid, !.goalPosition = r.goalPosition,
                      !.visitedTiles = {<<0, 0>>},
                      !.projectiles = << >>, !.enemies = << >>],
            r.ri, r.terminates)

\* mutation: the new level adds the start to the visited set it finds
resetForLevelKeepingVisited(w, r) ==
    Outcome([w EXCEPT !.grid = r.grid, !.goalPosition = r.goalPosition,
                      !.visitedTiles = @ \cup {<<0, 0>>},
                      !.projectiles = << >>, !.enemies = << >>,
                      !.playerPosition = Pos(0, 0)],
            r.ri, r.terminates)

\* what generateLevel writes around its call of generateGrid, whose result is r
resetForLevel(w, r) ==
    Outcome([w EXCEPT !.grid = r.grid, !.goalPosition = r.goalPosition,
                      !.visitedTiles = {<<0, 0>>},
                      !.projectiles = << >>, !.enemies = << >>,
                      !.playerPosition = Pos(0, 0)],
            r.ri, r.terminates)

generateLevel(w, tape) == resetForLevel(w, generatedGrids[w.level][tape])

handleLevelComplete(w, tape) == generateLevel([w EXCEPT !.level = @ + 1], tape)

Directions == {"up", "down", "left", "right"}

\* "Calculate new position based on direction"
newPosition(pos, direction) ==
    CASE direction = "up" -> Pos(pos.x, pos.y - 1)
      [] direction = "down" -> Pos(pos.x, pos.y + 1)
      [] direction = "left" -> Pos(pos.x - 1, pos.y)
      [] direction = "right" -> Pos(pos.x + 1, pos.y)

\* mutation: the new tile is not marked as visited
acceptMoveNotMarkingVisited(w, new) ==
    [updateScoreDisplay([w EXCEPT !.score = @ - stepPenalty])
        EXCEPT !.playerPosition = new]

\* the body of "if (isValidMove(newX, newY))" up to the test for the goal
acceptMove(w, new) ==
    [updateScoreDisplay([w EXCEPT !.score = @ - stepPenalty])
        EXCEPT !.playerPosition = new,
               !.visitedTiles = @ \cup {<<new.x, new.y>>}]

\* mutation: only a game that never started ignores the direction
handleMovementWhenGameOver(w, direction, tape) ==
    IF ~w.isGameOver /\ ~w.isPlaying THEN Outcome(w, 0, TRUE)
    ELSE LET new == newPosition(w.playerPosition, direction)
             v == isValidMove(w, new.x, new.y)
         IN  IF ~v.valid THEN Outcome(v.w, 0, TRUE)
             ELSE IF new = v.w.goalPosition
                  THEN handleLevelComplete(acceptMove(v.w, new), tape)
             ELSE Outcome(acceptMove(v.w, new), 0, TRUE)

handleMovement(w, direction, tape) ==
    IF w.isGameOver \/ ~w.isPlaying THEN Outcome(w, 0, TRUE)
    ELSE LET new == newPosition(w.playerPosition, direction)
             v == isValidMove(w, new.x, new.y)
         IN  IF ~v.valid THEN Outcome(v.w, 0, TRUE)
             ELSE IF new = v.w.goalPosition
                  THEN handleLevelComplete(acceptMove(v.w, new), tape)
             ELSE Outcome(acceptMove(v.w, new), 0, TRUE)

----------------------------------------------------------------------------
(* The animation loop: projectiles and enemies *)

\* the position after one frame; the speed is
\* "projectileSpeed * (1 + 0.1 * gameState.level)"
moveProjectile(p, lvl) ==
    LET speed == (projectileSpeed * (10 + lvl)) \div 10
    IN  [p EXCEPT !.x = @ + p.vx * speed, !.z = @ + p.vz * speed]

\* "for (let i = gameState.projectiles.length - 1; i >= 0; i--)", i 1-based
RECURSIVE projectileLoop(_, _)
projectileLoop(w, i) ==
    IF i = 0 THEN w
    ELSE LET moved == moveProjectile(w.projectiles[i], w.level)
             gridX == roundCell(moved.x)
             gridY == roundCell(moved.z)
             w1 == [w EXCEPT !.projectiles[i] = moved]
             w2 == IF gridX = w.playerPosition.x /\ gridY = w.playerPosition.y
                   THEN [handleCollision(w1) EXCEPT !.projectiles = RemoveAt(@, i)]
                   ELSE IF ~inBounds(gridSize, gridX, gridY)
                        THEN [w1 EXCEPT !.projectiles = RemoveAt(@, i)]
                   ELSE IF w1.grid[gridY][gridX] = 1
                        THEN [w1 EXCEPT !.projectiles = RemoveAt(@, i)]
                   ELSE w1
         IN  projectileLoop(w2, i - 1)

spawnProjectile(w, tape, ri) ==
    IF ~w.isPlaying \/ w.isGameOver THEN Outcome(w, ri, TRUE)
    ELSE LET side == randomInt(tape, ri, 4)
             c == randomInt(tape, ri + 1, gridSize)
             edge == gridSize - 1
             p == CASE side = 0 -> [x |-> c * tileSize, z |-> 0, vx |-> 0, vz |-> 1]
                    [] side = 1 -> [x |-> edge * tileSize, z |-> c * tileSize,
                                    vx |-> -1, vz |-> 0]
                    [] side = 2 -> [x |-> c * tileSize, z |-> edge * tileSize,
                                    vx |-> 0, vz |-> -1]
                    [] side = 3 -> [x |-> 0, z |-> c * tileSize, vx |-> 1, vz |-> 0]
         IN  Outcome([w EXCEPT !.projectiles = Append(@, p)], ri + 2, TRUE)

updateProjectiles(w, tape, ri) ==
    IF ~w.isPlaying \/ w.isGameOver THEN Outcome(w, ri, TRUE)
    ELSE LET w1 == projectileLoop(w, Len(w.projectiles))
         IN  IF randomLess(tape, ri, w1.level, 100)
                /\ Len(w1.projectiles) < w1.level + 2
             THEN spawnProjectile(w1, tape, ri + 1)
             ELSE Outcome(w1, ri + 1, TRUE)

\* "Move towards player with simple AI": horizontally, else vertically
moveEnemy(e, w) ==
    LET currentX == roundCell(e.x)
        currentY == roundCell(e.z)
        dx == IF currentX < w.playerPosition.x THEN 1
              ELSE IF currentX > w.playerPosition.x THEN -1 ELSE 0
        dy == IF currentY < w.playerPosition.y THEN 1
              ELSE IF currentY > w.playerPosition.y THEN -1 ELSE 0
    IN  IF ~inBounds(gridSize, currentX + dx, currentY) THEN e
        ELSE IF w.grid[currentY][currentX + dx] # 1
             THEN [e EXCEPT !.x = @ + dx * enemySpeed]
        ELSE IF inBounds(gridSize, currentX, currentY + dy)
                /\ w.grid[currentY + dy][currentX] # 1
             THEN [e EXCEPT !.z = @ + dy * enemySpeed]
        ELSE e

\* "for (let i = gameState.enemies.length - 1; i >= 0; i--)", i 1-based
RECURSIVE enemyLoop(_, _)
enemyLoop(w, i) ==
    IF i = 0 THEN w
    ELSE LET moved == moveEnemy(w.enemies[i], w)
             w1 == [w EXCEPT !.enemies[i] = moved]
             hit == /\ 2 * Abs(moved.x - w.playerPosition.x * tileSize) < tileSize
                    /\ 2 * Abs(moved.z - w.playerPosition.y * tileSize) < tileSize
             w2 == IF hit
                   THEN [handleCollision(w1) EXCEPT !.enemies = RemoveAt(@, i)]
                   ELSE w1
         IN  enemyLoop(w2, i - 1)

\* "do { ... } while (true)": the first pair of draws that is more than 5
\* steps from the player and not a wall; not returned when the draws never
\* yield one
RECURSIVE spawnEnemyAt(_, _, _, _)
spawnEnemyAt(w, tape, ri, fuel) ==
    LET x == randomInt(tape, ri, gridSize)
        y == randomInt(tape, ri + 1, gridSize)
        distance == Abs(x - w.playerPosition.x) + Abs(y - w.playerPosition.y)
    IN  IF distance > 5 /\ w.grid[y][x] # 1
        THEN Outcome([w EXCEPT !.enemies =
                          Append(@, [x |-> x * tileSize, z |-> y * tileSize])],
                     ri + 2, TRUE)
        ELSE IF fuel = 0 THEN Outcome(w, ri + 2, FALSE)
        ELSE spawnEnemyAt(w, tape, ri + 2, fuel - 1)

spawnEnemy(w, tape, ri) ==
    IF ~w.isPlaying \/ w.isGameOver THEN Outcome(w, ri, TRUE)
    ELSE spawnEnemyAt(w, tape, ri, Len(tape))

updateEnemies(w, tape, ri) ==
    IF ~w.isPlaying \/ w.isGameOver THEN Outcome(w, ri, TRUE)
    ELSE LET w1 == enemyLoop(w, Len(w.enemies))
         IN  IF randomLess(tape, ri, 5 * w1.level, 1000)
                /\ Len(w1.enemies) < w1.level \div 2
             THEN spawnEnemy(w1, tape, ri + 1)
             ELSE Outcome(w1, ri + 1, TRUE)

\* one run of animate(): the next frame is requested unless the game is over
animate(w, tape, ri) ==
    LET w1 == IF ~w.isGameOver THEN [w EXCEPT !.animationFrames = @ + 1] ELSE w
        p == updateProjectiles(w1, tape, ri)
    IN  updateEnemies(p.w, tape, p.ri)

\* "generateLevel(); animate();" with g what generateLevel left
thenAnimate(g, tape) == IF g.returned THEN animate(g.w, tape, g.ri) ELSE g

startGame(w, tape) ==
    thenAnimate(generateLevel(updateScoreDisplay([w EXCEPT !.startOverlayHidden = TRUE,
                                        !.isPlaying = TRUE, !.isGameOver = FALSE,
                                        !.score = initialScore,
                                        !.lives = initialLives, !.level = 1]),
                              tape),
                tape)

\* mutation: the restart keeps the score of the game that ended
restartGameKeepingScore(w, tape) ==
    thenAnimate(generateLevel(updateScoreDisplay([w EXCEPT !.gameoverOverlayHidden = TRUE,
                                        !.isPlaying = TRUE, !.isGameOver = FALSE,
                                        !.lives = initialLives, !.level = 1,
                                        !.visitedTiles = {},
                                        !.playerPosition = Pos(0, 0),
                                        !.projectiles = << >>, !.enemies = << >>]),
                              tape),
                tape)

restartGame(w, tape) ==
    thenAnimate(generateLevel(updateScoreDisplay([w EXCEPT !.gameoverOverlayHidden = TRUE,
                                        !.isPlaying = TRUE, !.isGameOver = FALSE,
                                        !.score = initialScore,
                                        !.lives = initialLives, !.level = 1,
                                        !.visitedTiles = {},
                                        !.playerPosition = Pos(0, 0),
                                        !.projectiles = << >>, !.enemies = << >>]),
                              tape),
                tape)

----------------------------------------------------------------------------
(* The game as a state machine: one action per event of the page *)

\* accepted moves since the game was started, as the score records them
stepsTaken ==
    (initialScore - score - deathPenalty * (initialLives - lives)) \div stepPenalty

Publish(w) ==
    /\ score' = w.score
    /\ lives' = w.lives
    /\ level' = w.level
    /\ isGameOver' = w.isGameOver
    /\ isPlaying' = w.isPlaying
    /\ grid' = w.grid
    /\ visitedTiles' = w.visitedTiles
    /\ playerPosition' = w.playerPosition
    /\ goalPosition' = w.goalPosition
    /\ projectiles' = w.projectiles
    /\ enemies' = w.enemies
    /\ startOverlayHidden' = w.startOverlayHidden
    /\ gameoverOverlayHidden' = w.gameoverOverlayHidden
    /\ scoreDisplay' = w.scoreDisplay
    /\ finalScoreDisplay' = w.finalScoreDisplay
    /\ animationFrames' = w.animationFrames

\* the page once initGame has run: the start overlay is shown, no grid yet
GameInit ==
    /\ IdleGame(1)
    /\ grid = << >>
    /\ call = [op |-> "page", state |-> "loaded", games |-> 0]

\* click on the start button, which the shown start overlay offers
StartGame ==
    /\ ~startOverlayHidden
    /\ animationFrames < MaxLoops
    /\ \E tape \in GameTapes :
          \E o \in {startGame(world, tape)} :
              /\ o.returned
              /\ Publish(o.w)
              /\ ticks' = IF o.w.projectiles = << >> /\ o.w.enemies = << >>
                          THEN 0 ELSE 1
    /\ call.games < MaxGames
    /\ call' = [call EXCEPT !.games = @ + 1]

\* click on the restart button, which the shown game-over overlay offers
RestartGame ==
    /\ ~gameoverOverlayHidden
    /\ animationFrames < MaxLoops
    /\ \E tape \in GameTapes :
          \E o \in {restartGame(world, tape)} :
              /\ o.returned
              /\ Publish(o.w)
              /\ ticks' = IF o.w.projectiles = << >> /\ o.w.enemies = << >>
                          THEN 0 ELSE 1
    /\ call.games < MaxGames
    /\ call' = [call EXCEPT !.games = @ + 1]

\* the Escape key: handleKeyboardInput shows the start overlay again
KeyEscape ==
    /\ startOverlayHidden' = FALSE
    /\ UNCHANGED << score, lives, level, isGameOver, isPlaying, grid, visitedTiles,
                    playerPosition, goalPosition, projectiles, enemies,
                    gameoverOverlayHidden, scoreDisplay, finalScoreDisplay, animationFrames, ticks, call >>

\* an arrow key, a WASD key or a recognised gesture
DirectionEvent(direction) ==
    /\ stepsTaken < (IF call.games <= 1 THEN MaxSteps ELSE MaxStepsAgain)
    /\ \E tape \in GameTapes :
          \E o \in {handleMovement(world, direction, tape)} :
              /\ o.returned
              /\ Publish(o.w)
              /\ ticks' = IF o.w.level = level THEN ticks ELSE 0
    /\ UNCHANGED call

Move == \E direction \in Directions : DirectionEvent(direction)

\* the browser runs one requested callback of animate
AnimationFrame ==
    /\ animationFrames > 0
    /\ \E tape \in GameTapes :
          \E o \in {animate([world EXCEPT !.animationFrames = @ - 1], tape, 0)} :
              /\ o.returned
              /\ ticks' = IF o.w.projectiles = projectiles /\ o.w.enemies = enemies
                          THEN ticks ELSE ticks + 1
              /\ ticks' <= MaxFrames
              /\ Publish(o.w)
    /\ UNCHANGED call

GameNext == StartGame \/ RestartGame \/ KeyEscape \/ Move \/ AnimationFrame

GameSpec == GameInit /\ [][GameNext]_vars

----------------------------------------------------------------------------
(* The second level, where enemies appear: the game from the moment level 1 *)
(* is completed, with tapes long enough for an enemy to be placed           *)

HazardTapes == TapesOf(HazardTapeLen)

\* handleLevelComplete has just run for a first level won without a collision
\* on a shortest route, while one callback of animate is pending
HazardInit ==
    \E t1 \in GameTapes, tape \in GameTapes :
        \E r \in {generatedGrids[2][tape]} :
            /\ r.terminates
            /\ score = initialScore
                         - stepPenalty * (generatedGrids[1][t1].goalPosition.x
                                          + generatedGrids[1][t1].goalPosition.y)
            /\ lives = initialLives
            /\ level = 2
            /\ isGameOver = FALSE
            /\ isPlaying = TRUE
            /\ grid = r.grid
            /\ visitedTiles = {<<0, 0>>}
            /\ playerPosition = Pos(0, 0)
            /\ goalPosition = r.goalPosition
            /\ projectiles = << >>
            /\ enemies = << >>
            /\ startOverlayHidden = TRUE
            /\ gameoverOverlayHidden = TRUE
            /\ scoreDisplay = score
            /\ finalScoreDisplay = 0
            /\ animationFrames = 1
            /\ ticks = 0
            /\ call = [op |-> "level", state |-> "started"]

\* an arrow key, a WASD key or a recognised gesture on the second level
HazardMove ==
    /\ Cardinality(visitedTiles) <= HazardSteps
    /\ \E direction \in Directions, tape \in GameTapes :
          \E o \in {handleMovement(world, direction, tape)} :
              /\ o.returned
              /\ Publish(o.w)
    /\ UNCHANGED << ticks, call >>

\* the browser runs one requested callback of animate
HazardFrame ==
    /\ animationFrames > 0
    /\ \E tape \in HazardTapes :
          \E o \in {animate([world EXCEPT !.animationFrames = @ - 1], tape, 0)} :
              /\ o.returned
              /\ ticks' = IF o.w.projectiles = projectiles /\ o.w.enemies = enemies
                          THEN ticks ELSE ticks + 1
              /\ ticks' <= HazardFrames
              /\ Publish(o.w)
    /\ UNCHANGED call

HazardNext == HazardMove \/ HazardFrame

HazardSpec == HazardInit /\ [][HazardNext]_vars

----------------------------------------------------------------------------
(* The fifth level, the first one generateWindingMaze builds: the game from *)
(* the moment level 4 is completed                                          *)

\* generateGrid() for the levels 3 to 5 and every tape of the game
laterGrids ==
    [lvl \in 3..5 |->
        [tape \in GameTapes |-> generateGrid(tape, lvl, gridSize)] @@ << >>] @@ << >>

gridOfLevel(lvl, tape) ==
    IF lvl \in GameLevels THEN generatedGrids[lvl][tape] ELSE laterGrids[lvl][tape]

\* the accepted moves of a shortest route through the level generated as r
shortestRoute(r) ==
    Len(findPath(r.grid, gridSize, 0, 0, r.goalPosition.x, r.goalPosition.y)) - 1

\* handleLevelComplete has just run for a fourth level, each level so far won
\* without a collision on a shortest route, while one callback of animate is
\* pending
WindingInit ==
    \E t \in [1..4 -> GameTapes], tape \in GameTapes :
        \E r \in {gridOfLevel(5, tape)} :
            /\ \A l \in 1..4 : gridOfLevel(l, t[l]).terminates
            /\ r.terminates
            /\ score = initialScore
                         - stepPenalty * (shortestRoute(gridOfLevel(1, t[1]))
                                          + shortestRoute(gridOfLevel(2, t[2]))
                                          + shortestRoute(gridOfLevel(3, t[3]))
                                          + shortestRoute(gridOfLevel(4, t[4])))
            /\ lives = initialLives
            /\ level = 5
            /\ isGameOver = FALSE
            /\ isPlaying = TRUE
            /\ grid = r.grid
            /\ visitedTiles = {<<0, 0>>}
            /\ playerPosition = Pos(0, 0)
            /\ goalPosition = r.goalPosition
            /\ projectiles = << >>
            /\ enemies = << >>
            /\ startOverlayHidden = TRUE
            /\ gameoverOverlayHidden = TRUE
            /\ scoreDisplay = Max(0, score)
            /\ finalScoreDisplay = 0
            /\ animationFrames = 1
            /\ ticks = 0
            /\ call = [op |-> "level", state |-> "started"]

\* an arrow key, a WASD key or a recognised gesture on the fifth level
WindingMove ==
    /\ Cardinality(visitedTiles) <= WindingSteps
    /\ \E direction \in Directions, tape \in GameTapes :
          \E o \in {handleMovement(world, direction, tape)} :
              /\ o.returned
              /\ Publish(o.w)
    /\ UNCHANGED << ticks, call >>

\* the browser runs one requested callback of animate
WindingFrame ==
    /\ animationFrames > 0
    /\ \E tape \in HazardTapes :
          \E o \in {animate([world EXCEPT !.animationFrames = @ - 1], tape, 0)} :
              /\ o.returned
              /\ ticks' = IF o.w.projectiles = projectiles /\ o.w.enemies = enemies
                          THEN ticks ELSE ticks + 1
              /\ ticks' <= WindingFrames
              /\ Publish(o.w)
    /\ UNCHANGED call

WindingNext == WindingMove \/ WindingFrame

WindingSpec == WindingInit /\ [][WindingNext]_vars

----------------------------------------------------------------------------
(* Loading the page: initGame, setupHandpose, the escape hatch and the       *)
(* timers they set. Time is counted in steps of 500 ms from the moment the  *)
(* script has run; call holds what the loading has reached.                 *)

initDelay == 1            \* setTimeout(() => { initGame() }, 500)
loadingTimeout == 30      \* "15 seconds maximum loading time"
forceDelay == 2           \* forceCompleteLoading: setTimeout(..., 1000)
bypassWait == 2           \* "Wait a moment to show the message": 1000
errorWait == 4            \* "Wait a moment to show the error message": 2000
fatalDelay == 10          \* "Force hide loading overlay after 5 seconds"
webcamTimeout == 16       \* "Webcam access timed out": 8000
videoTimeout == 16        \* "8 second timeout"
modelTimeout == 20        \* "Handpose model loading timed out": 10000
hatchDelay == 6           \* setTimeout(checkIfStuck, 3000)
hatchRetry == 2           \* setTimeout(checkIfStuck, 1000)
maxAttempts == 5

Timer(kind, at) == [kind |-> kind, at |-> at]

\* the timer of the given kind is due now
Due(kind) == Timer(kind, call.now) \in call.timers

\* "loadingOverlay.classList.add('hidden'); startOverlay.classList.remove('hidden')"
showStartOverlay(c) == [c EXCEPT !.loadingOverlayHidden = TRUE]

\* the script has run: the escape hatch is set up, DOMContentLoaded has set the
\* timer that calls initGame, both overlays are as index.html declares them
LoadInit ==
    /\ IdleGame(1)
    /\ grid = << >>
    /\ call = [op |-> "initGame", state |-> "scheduled", now |-> 0,
               loadingOverlayHidden |-> FALSE, startListener |-> FALSE,
               timers |-> {Timer("initGame", initDelay), Timer("checkIfStuck", hatchDelay)},
               initAttempts |-> 0, stage |-> "none", deadline |-> 0, errors |-> 0]

LoadFrame == UNCHANGED << gameVars, grid >>

\* what initGame does once nothing is awaited any more: "Hide loading overlay,
\* show start overlay", "Add event listeners", clearTimeout(loadingTimeoutId)
completeInit(c) ==
    [showStartOverlay(c) EXCEPT !.state = "completed", !.startListener = TRUE,
                                !.stage = "none",
                                !.timers = { t \in @ : t.kind # "loadingTimeout" }]

\* initGame up to its first await, or through its catch when setupThreeJS throws
RunInitGame ==
    /\ Due("initGame")
    /\ \E way \in {"handpose", "unsupported", "bypass", "fatal"} :
          \E c \in {[call EXCEPT !.timers = (@ \ {Timer("initGame", call.now)})
                                     \cup {Timer("loadingTimeout", call.now + loadingTimeout)}]} :
              call' = CASE way = "handpose" ->
                             [c EXCEPT !.state = "awaiting", !.stage = "webcam",
                                       !.deadline = call.now + webcamTimeout]
                        [] way = "unsupported" ->
                             [c EXCEPT !.state = "waiting",
                                       !.timers = @ \cup {Timer("resume", call.now + errorWait)}]
                        [] way = "bypass" ->
                             [c EXCEPT !.state = "waiting",
                                       !.timers = @ \cup {Timer("resume", call.now + bypassWait)}]
                        [] way = "fatal" ->
                             [c EXCEPT !.state = "failed",
                                       !.timers = @ \cup {Timer("fatal", call.now + fatalDelay)}]
    /\ LoadFrame

\* setupHandpose gets one step further: the webcam stream, the video's
\* metadata, the model; with the model initGame goes on to its end
HandposeProgress ==
    /\ call.state = "awaiting"
    /\ call.now < call.deadline
    /\ call' = CASE call.stage = "webcam" ->
                       [call EXCEPT !.stage = "video", !.deadline = call.now + videoTimeout]
                  [] call.stage = "video" ->
                       [call EXCEPT !.stage = "model", !.deadline = call.now + modelTimeout]
                  [] call.stage = "model" -> completeInit(call)
    /\ LoadFrame

\* setupHandpose rejects, by an error or by the timeout of its stage; initGame
\* catches it and waits before it goes on
HandposeRejected ==
    /\ call.state = "awaiting"
    /\ call.now <= call.deadline
    /\ call' = [call EXCEPT !.state = "waiting", !.stage = "none",
                            !.timers = @ \cup {Timer("resume", call.now + errorWait)}]
    /\ LoadFrame

\* the wait of initGame is over
ResumeInit ==
    /\ Due("resume")
    /\ call' = completeInit([call EXCEPT !.timers = @ \ {Timer("resume", call.now)}])
    /\ LoadFrame

\* "Loading timeout reached - forcing completion"
LoadingTimeout ==
    /\ Due("loadingTimeout")
    /\ call' = showStartOverlay([call EXCEPT !.timers = @ \ {Timer("loadingTimeout", call.now)}])
    /\ LoadFrame

\* checkIfStuck of setupEscapeHatch
CheckIfStuck ==
    /\ Due("checkIfStuck")
    /\ \E c \in {[call EXCEPT !.timers = @ \ {Timer("checkIfStuck", call.now)},
                               !.initAttempts = @ + 1]} :
          call' = IF ~c.loadingOverlayHidden /\ c.initAttempts >= maxAttempts
                  THEN showStartOverlay(c)
                  ELSE IF ~c.loadingOverlayHidden /\ c.initAttempts < maxAttempts
                  THEN [c EXCEPT !.timers = @ \cup {Timer("checkIfStuck", call.now + hatchRetry)}]
                  ELSE c
    /\ LoadFrame

\* an 'error' or 'unhandledrejection' event once initGame has added its handlers
GlobalError ==
    /\ call.state # "scheduled"
    /\ call.errors < MaxErrors
    /\ call' = [call EXCEPT !.errors = @ + 1,
                            !.timers = @ \cup {Timer("force", call.now + forceDelay)}]
    /\ LoadFrame

\* the timer of forceCompleteLoading
ForceComplete ==
    /\ Due("force")
    /\ call' = showStartOverlay([call EXCEPT !.timers = @ \ {Timer("force", call.now)}])
    /\ LoadFrame

\* the timer set by the catch of initGame
FatalShow ==
    /\ Due("fatal")
    /\ call' = showStartOverlay([call EXCEPT !.timers = @ \ {Timer("fatal", call.now)}])
    /\ LoadFrame

\* 500 ms pass: no timer is due, and a stage of setupHandpose that has reached
\* its timeout has been rejected
Tick ==
    /\ call.now < MaxClock
    /\ \A t \in call.timers : t.at > call.now
    /\ call.state = "awaiting" => call.now < call.deadline
    /\ call' = [call EXCEPT !.now = @ + 1]
    /\ LoadFrame

LoadNext ==
    \/ RunInitGame \/ HandposeProgress \/ HandposeRejected \/ ResumeInit
    \/ LoadingTimeout \/ CheckIfStuck \/ GlobalError \/ ForceComplete
    \/ FatalShow \/ Tick

LoadSpec == LoadInit /\ [][LoadNext]_vars

----------------------------------------------------------------------------
(* The colour of the player: the first level from its start, with the flash *)
(* of handleCollision and its 200 ms timers. call holds the colour of       *)
(* playerMesh.material and, oldest first, the colour each pending timer     *)
(* will set.                                                                *)

\* "Visual feedback for collision": the colour found is kept for the timer,
\* the player turns red
flash(c) == [c EXCEPT !.flashTimers = Append(@, c.color), !.color = "0xff0000"]

RECURSIVE flashes(_, _)
flashes(c, n) == IF n = 0 THEN c ELSE flashes(flash(c), n - 1)

\* the calls of handleCollision, made by a handler that found livesBefore and
\* left livesAfter, that did not end in gameOver()
nonFatal(livesBefore, livesAfter) ==
    Cardinality({ k \in 1..(livesBefore - livesAfter) : livesBefore - k > 0 })

\* startGame has just run; its frame spawned nothing
FlashInit ==
    \E tape \in GameTapes :
        \E r \in {generatedGrids[1][tape]} :
            /\ r.terminates
            /\ score = initialScore
            /\ lives = initialLives
            /\ level = 1
            /\ isGameOver = FALSE
            /\ isPlaying = TRUE
            /\ grid = r.grid
            /\ visitedTiles = {<<0, 0>>}
            /\ playerPosition = Pos(0, 0)
            /\ goalPosition = r.goalPosition
            /\ projectiles = << >>
            /\ enemies = << >>
            /\ startOverlayHidden = TRUE
            /\ gameoverOverlayHidden = TRUE
            /\ scoreDisplay = score
            /\ finalScoreDisplay = 0
            /\ animationFrames = 1
            /\ ticks = 0
            /\ call = [op |-> "handleCollision", color |-> "0x00ff00",
                       flashTimers |-> << >>]

\* an arrow key, a WASD key or a recognised gesture
FlashMove ==
    /\ stepsTaken < FlashSteps
    /\ \E direction \in Directions, tape \in GameTapes :
          \E o \in {handleMovement(world, direction, tape)} :
              /\ o.returned
              /\ Publish(o.w)
              /\ call' = flashes(call, nonFatal(lives, o.w.lives))
    /\ UNCHANGED ticks

\* the browser runs one requested callback of animate
FlashFrame ==
    /\ animationFrames > 0
    /\ \E tape \in GameTapes :
          \E o \in {animate([world EXCEPT !.animationFrames = @ - 1], tape, 0)} :
              /\ o.returned
              /\ ticks' = IF o.w.projectiles = projectiles /\ o.w.enemies = enemies
                          THEN ticks ELSE ticks + 1
              /\ ticks' <= FlashFrames
              /\ Publish(o.w)
              /\ call' = flashes(call, nonFatal(lives, o.w.lives))

\* the oldest timer of handleCollision fires:
\* "playerMesh.material.color.setHex(originalColor)"
FlashTimer ==
    /\ call.flashTimers # << >>
    /\ call' = [call EXCEPT !.color = Head(call.flashTimers), !.flashTimers = Tail(@)]
    /\ UNCHANGED << gameVars, grid >>

FlashNext == FlashMove \/ FlashFrame \/ FlashTimer

FlashSpec == FlashInit /\ [][FlashNext]_vars

----------------------------------------------------------------------------
(* Claims about the path finder *)

Neighbours(size, c) ==
    { n \in (0..(size - 1)) \X (0..(size - 1)) :
        Abs(n[1] - c[1]) + Abs(n[2] - c[2]) = 1 }

\* the open cells joined to the cells of S by orthogonal steps over open cells
RECURSIVE OpenRegion(_, _, _)
OpenRegion(g, size, S) ==
    LET S1 == S \cup { n \in UNION { Neighbours(size, c) : c \in S } : g[n[2]][n[1]] = 0 }
    IN  IF S1 = S THEN S ELSE OpenRegion(g, size, S1)

\* a 4-connected route of open cells, both ends included
OpenRoute(g, size, sx, sy, ex, ey) ==
    /\ g[sy][sx] = 0
    /\ <<ex, ey>> \in OpenRegion(g, size, {<<sx, sy>>})

Manhattan(ax, ay, bx, by) == Abs(ax - bx) + Abs(ay - by)

NoWalls(g, size) == \A y \in 0..(size - 1), x \in 0..(size - 1) : g[y][x] = 0

IsPathFromTo(p, sx, sy, ex, ey) ==
    /\ Len(p) > 0
    /\ p[1] = Pos(sx, sy)
    /\ p[Len(p)] = Pos(ex, ey)
    /\ \A i \in 1..(Len(p) - 1) :
           Manhattan(p[i].x, p[i].y, p[i + 1].x, p[i + 1].y) = 1

PfReturned == call.op = "findPath" /\ call.state = "returned"

\* C7: on a grid without walls findPath returns exactly
\* |start.x - goal.x| + |start.y - goal.y| + 1 positions.
C7_OpenGridManhattan ==
    (PfReturned /\ NoWalls(grid, PathSize)) =>
        Len(call.path) = Manhattan(call.startX, call.startY, call.endX, call.endY) + 1

C7_Witness ==
    /\ PfReturned /\ NoWalls(grid, PathSize)
    /\ Manhattan(call.startX, call.startY, call.endX, call.endY) = 2 * (PathSize - 1)
    /\ Len(call.path) = 2 * PathSize - 1

\* C8: findPath returns the empty sequence exactly when no 4-connected route of
\* open cells leads from start to goal.
C8_EmptyExactlyWhenNoOpenRoute ==
    PfReturned =>
        (Len(call.path) = 0 <=>
            ~OpenRoute(grid, PathSize, call.startX, call.startY, call.endX, call.endY))

\* C9: a non-empty path starts at start, ends at goal and moves one orthogonal
\* step at a time.
C9_PathContiguous ==
    (PfReturned /\ Len(call.path) > 0) =>
        IsPathFromTo(call.path, call.startX, call.startY, call.endX, call.endY)

C9_Witness ==
    /\ PfReturned
    /\ ~NoWalls(grid, PathSize)
    /\ Len(call.path) > Manhattan(call.startX, call.startY, call.endX, call.endY) + 1

\* C10: every position of a returned path is inside the grid and is an open
\* cell, the start cell included.
C10_PathCellsOpen ==
    PfReturned =>
        \A i \in 1..Len(call.path) :
            /\ inBounds(PathSize, call.path[i].x, call.path[i].y)
            /\ grid[call.path[i].y][call.path[i].x] = 0

C12_FallbackMakesPath ==
    (call.op = "findPath" /\ call.state = "validated" /\ Len(call.path) = 0) =>
        Len(findPath(grid, PathSize, call.startX, call.startY,
                     call.endX, call.endY)) > 0

\* the fallback has run between two different cells and walls are left
C12_Witness ==
    /\ call.op = "findPath" /\ call.state = "validated"
    /\ Len(call.path) = 0
    /\ ~NoWalls(grid, PathSize)
    /\ call.startX # call.endX /\ call.startY # call.endY

----------------------------------------------------------------------------
(* Claims about generateGrid *)

GridReturned == call.op = "generateGrid" /\ call.state = "returned"

WallCount(g, size) ==
    Cardinality({ c \in (0..(size - 1)) \X (0..(size - 1)) : g[c[2]][c[1]] = 1 })

\* C1: for every level and every outcome of the draws, the grid left by
\* generateGrid has a 4-connected route of open cells from (0,0) to the goal,
\* and findPath returns a non-empty path on it.
C1_GeneratedGridSolvable ==
    GridReturned =>
        /\ OpenRoute(grid, gridSize, 0, 0, goalPosition.x, goalPosition.y)
        /\ Len(findPath(grid, gridSize, 0, 0, goalPosition.x, goalPosition.y)) > 0

\* a room level: the divider walls close row 0, so the open cell (1,0) shows
\* that the fallback corridor was carved
C1_Witness ==
    /\ GridReturned
    /\ level >= 3 /\ level % 3 = 0
    /\ grid[0][1] = 0
    /\ WallCount(grid, gridSize) > gridSize
    /\ OpenRoute(grid, gridSize, 0, 0, goalPosition.x, goalPosition.y)

\* C2: in every grid published by generateGrid the start cell (0,0) and the
\* goal cell are open.
C2_StartAndGoalOpen ==
    GridReturned =>
        /\ grid[0][0] = 0
        /\ grid[goalPosition.y][goalPosition.x] = 0

\* a published grid with walls, on a level with a drawn goal
C2_Witness ==
    /\ GridReturned
    /\ level >= 5
    /\ WallCount(grid, gridSize) > gridSize
    /\ grid[0][0] = 0
    /\ grid[goalPosition.y][goalPosition.x] = 0

\* C17: the generator that runs depends on the level alone: generateSimpleMaze
\* on the levels 1 and 2, and from level 3 on generateRoomMaze when
\* level % 3 = 0, generateSpiralMaze when it is 1, generateWindingMaze when 2.
C17_GeneratorByLevel ==
    GridReturned =>
        call.generator =
            IF level \in {1, 2} THEN "generateSimpleMaze"
            ELSE IF level % 3 = 0 THEN "generateRoomMaze"
            ELSE IF level % 3 = 1 THEN "generateSpiralMaze"
            ELSE "generateWindingMaze"

\* the room maze has come round a second time, on level 6
C17_Witness ==
    /\ GridReturned
    /\ level = 6
    /\ call.generator = "generateRoomMaze"
    /\ WallCount(call.maze, gridSize) > 0

\* C18: on every level the goal lies inside the grid and is not the start
\* (0,0); from level 5 on its Manhattan distance from the start is at least
\* floor(gridSize * 0.6).
C18_GoalPlacement ==
    GridReturned =>
        /\ inBounds(gridSize, goalPosition.x, goalPosition.y)
        /\ goalPosition # Pos(0, 0)
        /\ level >= 5 =>
              Abs(goalPosition.x - 0) + Abs(goalPosition.y - 0) >= (gridSize * 6) \div 10

\* a goal at exactly the least distance, taken after a nearer pair was refused
C18_Witness ==
    /\ GridReturned
    /\ level >= 5
    /\ call.goalDraws > 2
    /\ goalPosition.x + goalPosition.y = (gridSize * 6) \div 10

----------------------------------------------------------------------------
(* Claims about the movement and collision rules *)

Playing(w) == w.isPlaying /\ ~w.isGameOver

GameOver(w) == w.isGameOver /\ ~w.isPlaying

\* the cell a direction event proposes in the current state
candidate(direction) == newPosition(playerPosition, direction)

candidateIs(direction, cell) ==
    /\ inBounds(gridSize, candidate(direction).x, candidate(direction).y)
    /\ grid[candidate(direction).y][candidate(direction).x] = cell

candidateVisited(direction) ==
    <<candidate(direction).x, candidate(direction).y>> \in visitedTiles

\* C3: while Playing, a direction event toward a wall inside the grid leaves
\* the player position and the visited set as they were, takes exactly one
\* life and exactly deathPenalty points, and ends the game exactly when no
\* life is left.
C3_WallCollision ==
    \A direction \in Directions, tape \in GameTapes :
        (Playing(world) /\ candidateIs(direction, 1)) =>
            \A w \in {handleMovement(world, direction, tape).w} :
                /\ w.playerPosition = playerPosition
                /\ w.visitedTiles = visitedTiles
                /\ w.lives = lives - 1
                /\ w.score = score - deathPenalty
                /\ GameOver(w) <=> w.lives <= 0
                /\ Playing(w) <=> w.lives > 0

\* three walls hit on the first level before any projectile appeared
C3_Witness ==
    /\ GameOver(world)
    /\ level = 1
    /\ ticks = 0
    /\ lives = 0
    /\ score = initialScore - initialLives * deathPenalty
                  - stepPenalty * (Cardinality(visitedTiles) - 1)

\* C4: a direction event toward an open cell that is already in the visited
\* set changes neither score, lives, player position nor visited set when the
\* level is 2 or more, and is an accepted move when the level is 1.
C4_RevisitRule ==
    \A direction \in Directions, tape \in GameTapes :
        (Playing(world) /\ candidateIs(direction, 0) /\ candidateVisited(direction)) =>
            \A w \in {handleMovement(world, direction, tape).w} :
                IF level >= 2
                THEN /\ w.score = score
                     /\ w.lives = lives
                     /\ w.playerPosition = playerPosition
                     /\ w.visitedTiles = visitedTiles
                ELSE /\ w.playerPosition = candidate(direction)
                     /\ w.score = score - stepPenalty
                     /\ w.lives = lives

\* on level 2 the player has left the start, which lies behind as a visited cell
C4_Witness ==
    /\ Playing(world)
    /\ level >= 2
    /\ playerPosition # Pos(0, 0)
    /\ \E direction \in Directions :
          candidateIs(direction, 0) /\ candidateVisited(direction)

\* the move onto the goal is accepted: the goal is an open cell of the grid
\* that the visited rule does not bar
goalAhead(direction) ==
    /\ candidate(direction) = goalPosition
    /\ candidateIs(direction, 0)
    /\ level >= 2 => ~candidateVisited(direction)

\* whether the grid that generateGrid leaves for a level and a tape of the game
\* has a route from the start to its goal, and findPath returns one
generatedSolvable ==
    LET solvable(r) ==
            /\ OpenRoute(r.grid, gridSize, 0, 0, r.goalPosition.x, r.goalPosition.y)
            /\ Len(findPath(r.grid, gridSize, 0, 0,
                            r.goalPosition.x, r.goalPosition.y)) > 0
    IN  [lvl \in GameLevels |->
            [tape \in GameTapes |-> solvable(generatedGrids[lvl][tape])] @@ << >>] @@ << >>

\* C5: an accepted move onto the goal raises the level by exactly 1, leaves
\* the lives as they were, puts the player on (0,0) of a grid that
\* generateGrid produced for the new level and that has a route to its goal,
\* and leaves the game Playing.
C5_GoalMove ==
    \A direction \in Directions, tape \in GameTapes :
        (Playing(world) /\ goalAhead(direction)) =>
            \A w \in {handleMovement(world, direction, tape).w} :
                /\ w.level = level + 1
                /\ w.lives = lives
                /\ w.playerPosition = Pos(0, 0)
                /\ Playing(w)
                /\ w.grid = generatedGrids[w.level][tape].grid
                /\ w.goalPosition = generatedGrids[w.level][tape].goalPosition
                /\ generatedSolvable[w.level][tape]

\* the first level has just been completed
C5_Witness ==
    /\ Playing(world)
    /\ level = 2
    /\ playerPosition = Pos(0, 0)
    /\ visitedTiles = {<<0, 0>>}
    /\ ticks = 0
    /\ stepsTaken >= 8

\* C6: a game whose lives collisions have brought to 0 is over, its lives
\* stay 0, and while it stays over no step changes score, lives, level or
\* player position.
C6_GameOverTerminal ==
    /\ [](lives <= 0 => (GameOver(world) /\ lives = 0))
    /\ [][(isGameOver /\ isGameOver') =>
             UNCHANGED << score, lives, level, playerPosition >>]_vars

\* C13: while Playing, a direction event whose candidate lies outside the
\* grid changes nothing: position, score, lives, level, visited set, grid and
\* every other field of the game are as before.
C13_OutOfGridChangesNothing ==
    \A direction \in Directions, tape \in GameTapes :
        (/\ Playing(world)
         /\ ~inBounds(gridSize, candidate(direction).x, candidate(direction).y)) =>
            \A w \in {handleMovement(world, direction, tape).w} :
                /\ w.playerPosition = playerPosition
                /\ w.score = score
                /\ w.lives = lives
                /\ w.level = level
                /\ w.visitedTiles = visitedTiles
                /\ w.grid = grid
                /\ w = world

\* the player has walked along an edge of the grid and lost a life on the way
C13_Witness ==
    /\ Playing(world)
    /\ playerPosition # Pos(0, 0)
    /\ lives < initialLives
    /\ \E direction \in Directions :
          ~inBounds(gridSize, candidate(direction).x, candidate(direction).y)

\* the candidate of a direction is accepted: in bounds, open, and not yet
\* visited when the level is 2 or more
accepted(direction) ==
    /\ candidateIs(direction, 0)
    /\ level >= 2 => ~candidateVisited(direction)

\* C14: an accepted move lowers the score by exactly stepPenalty, puts the
\* player on the candidate cell one orthogonal step away, adds that cell to
\* the visited set and leaves the lives as they were; the handler returns
\* that world, or hands it to the level completion when the cell is the goal,
\* and in both cases the score is stepPenalty lower and the lives are as before.
C14_AcceptedMove ==
    \A direction \in Directions, tape \in GameTapes :
        (Playing(world) /\ accepted(direction)) =>
            \A m \in {acceptMove(world, candidate(direction))} :
                /\ m.score = score - stepPenalty
                /\ m.playerPosition = candidate(direction)
                /\ Abs(m.playerPosition.x - playerPosition.x)
                     + Abs(m.playerPosition.y - playerPosition.y) = 1
                /\ m.visitedTiles =
                     visitedTiles \cup {<<candidate(direction).x, candidate(direction).y>>}
                /\ m.lives = lives
                /\ \A o \in {handleMovement(world, direction, tape)} :
                     /\ o.w.score = score - stepPenalty
                     /\ o.w.lives = lives
                     /\ IF candidate(direction) = goalPosition
                        THEN o = handleLevelComplete(m, tape)
                        ELSE o.w = m

\* a move onto a fresh cell is possible after a wall was hit on level 1
C14_Witness ==
    /\ Playing(world)
    /\ lives < initialLives
    /\ playerPosition # Pos(0, 0)
    /\ \E direction \in Directions :
          accepted(direction) /\ ~candidateVisited(direction)
                              /\ candidate(direction) # goalPosition

\* C15: a restart from GameOver leaves the game Playing at level 1 with the
\* score initialScore, the lives initialLives, the player on (0,0) and the
\* grid and goal that generateGrid produced for level 1, which has a route
\* from the start to the goal.
C15_RestartFromGameOver ==
    \A tape \in GameTapes :
        (GameOver(world) /\ ~gameoverOverlayHidden) =>
            \A o \in {restartGame(world, tape)} :
                o.returned =>
                    /\ Playing(o.w)
                    /\ o.w.level = 1
                    /\ o.w.score = initialScore
                    /\ o.w.lives = initialLives
                    /\ o.w.playerPosition = Pos(0, 0)
                    /\ o.w.visitedTiles = {<<0, 0>>}
                    /\ o.w.grid = generatedGrids[1][tape].grid
                    /\ o.w.goalPosition = generatedGrids[1][tape].goalPosition
                    /\ generatedSolvable[1][tape]

\* a game lost away from the start, which the restart button restarts
C15_Witness ==
    /\ GameOver(world)
    /\ ~gameoverOverlayHidden
    /\ lives <= 0
    /\ score < initialScore
    /\ playerPosition # Pos(0, 0)
    /\ \E tape \in GameTapes :
          restartGame(world, tape).returned /\ Playing(restartGame(world, tape).w)

\* a step that generates a level: the start, the restart, or the move that
\* completes a level
generationStep ==
    \/ ~startOverlayHidden /\ startOverlayHidden'
    \/ ~gameoverOverlayHidden /\ gameoverOverlayHidden'
    \/ level' = level + 1

\* C19: a step that is not a generation (a direction event with or without
\* a wall collision, a frame that updates projectiles and enemies) changes no
\* cell of the grid and not the goal.
C19_GridAndGoalFixed ==
    [][generationStep \/ (grid' = grid /\ goalPosition' = goalPosition)]_vars

\* an enemy has moved, a projectile is in flight, and a wall has been hit
C19_Witness ==
    /\ Len(enemies) > 0
    /\ \E i \in 1..Len(enemies) : enemies[i].x % tileSize # 0
    /\ Len(projectiles) > 0
    /\ lives < initialLives
    /\ playerPosition # Pos(0, 0)

Idle(w) == ~w.isPlaying /\ ~w.isGameOver

ScoreInit ==
    \E tape \in GameTapes, direction \in Directions, trips \in 0..MaxRoundTrips :
        \E r \in {generatedGrids[1][tape]}, n \in {newPosition(Pos(0, 0), direction)} :
            /\ r.terminates
            /\ inBounds(gridSize, n.x, n.y)
            /\ r.grid[n.y][n.x] = 0
            /\ score = initialScore - 2 * trips * stepPenalty
            /\ lives = initialLives
            /\ level = 1
            /\ isGameOver = FALSE
            /\ isPlaying = TRUE
            /\ grid = r.grid
            /\ visitedTiles = IF trips = 0 THEN {<<0, 0>>} ELSE {<<0, 0>>, <<n.x, n.y>>}
            /\ playerPosition = Pos(0, 0)
            /\ goalPosition = r.goalPosition
            /\ projectiles = << >>
            /\ enemies = << >>
            /\ startOverlayHidden = TRUE
            /\ gameoverOverlayHidden = TRUE
            /\ scoreDisplay = Max(0, score)
            /\ finalScoreDisplay = 0
            /\ animationFrames = 1
            /\ ticks = 0
            /\ call = [op |-> "game", state |-> "started", trips |-> trips]

\* an arrow key, a WASD key or a recognised gesture on the first level
ScoreMove ==
    /\ stepsTaken < 2 * call.trips + ScoreSteps
    /\ \E direction \in Directions, tape \in GameTapes :
          \E o \in {handleMovement(world, direction, tape)} :
              /\ o.returned
              /\ Publish(o.w)
    /\ UNCHANGED << ticks, call >>

ScoreNext == ScoreMove \/ AnimationFrame

ScoreSpec == ScoreInit /\ [][ScoreNext]_vars

\* C20: every score the player is shown is the internal score floored at zero:
\* the HUD score after each change of the score, and the final score on the
\* game-over screen once gameOver has run; the internal score may be negative.
C20_ShownScoreIsFloored ==
    /\ (Playing(world) \/ GameOver(world)) => scoreDisplay = Max(0, score)
    /\ GameOver(world) => finalScoreDisplay = Max(0, score)

\* the HUD part of C20 alone, which the code keeps
C20_HudScoreIsFloored ==
    (Playing(world) \/ GameOver(world)) => scoreDisplay = Max(0, score)

\* a game still in play whose internal score is below zero while the HUD shows 0
C20_HudWitness ==
    /\ score < 0
    /\ scoreDisplay = 0
    /\ Playing(world)

\* the game-over screen of a game lost with a negative score
C20_NegativeFinalScore ==
    /\ GameOver(world)
    /\ ~gameoverOverlayHidden
    /\ score < 0
    /\ scoreDisplay = 0
    /\ finalScoreDisplay = score

\* C21: right after a step that generates a level (the start, the restart, or
\* the move that completes a level) the visited set is exactly {start}.
C21_VisitedResetOnGeneration ==
    [][generationStep => visitedTiles' = {<<0, 0>>}]_vars

\* a second game has just begun after a first one in which cells were visited
C21_Witness ==
    /\ call.op = "page"
    /\ call.games = 2
    /\ Playing(world)
    /\ level = 1
    /\ score = initialScore
    /\ visitedTiles = {<<0, 0>>}
    /\ finalScoreDisplay > 0
    /\ finalScoreDisplay < initialScore - deathPenalty * initialLives

\* C22: the generation of every level terminates: the loop that draws the goal
\* of a level >= 5 ends under fair draws, the generator and validatePath
\* return, and the search of findPath ends within size * size + 1 passes.
C22_GenerationTerminates ==
    /\ <>(call.state = "returned")
    /\ [](call.state = "returned" => call.searchEnded)

\* the goal of a level >= 5 has been chosen after a pass that drew a position
\* too close to the start
C22_Witness ==
    /\ call.op = "generateGrid"
    /\ call.state = "chosen"
    /\ call.rejected
    /\ level >= 5
    /\ goalPosition.x + goalPosition.y >= minDistance(gridSize)

\* the least number of orthogonal steps over open cells from the cells of
\* `frontier`, which are d steps from the start, to target; -1 when there is none
RECURSIVE StepsFrom(_, _, _, _, _, _)
StepsFrom(g, size, seen, frontier, target, d) ==
    IF target \in frontier THEN d
    ELSE LET next == { n \in UNION { Neighbours(size, c) : c \in frontier } :
                         g[n[2]][n[1]] = 0 /\ n \notin seen }
         IN  IF next = {} THEN -1
             ELSE StepsFrom(g, size, seen \cup next, next, target, d + 1)

ShortestSteps(g, size, sx, sy, ex, ey) ==
    StepsFrom(g, size, {<<sx, sy>>}, {<<sx, sy>>}, <<ex, ey>>, 0)

\* C23: when a route of open cells joins start and goal, the path findPath
\* returns has the least possible number of steps: its length is the
\* breadth-first distance plus one.
C23_PathIsShortest ==
    (PfReturned /\ OpenRoute(grid, PathSize, call.startX, call.startY, call.endX, call.endY)) =>
        Len(call.path) = ShortestSteps(grid, PathSize, call.startX, call.startY,
                                       call.endX, call.endY) + 1

\* walls force the shortest route off every straight-line route
C23_Witness ==
    /\ PfReturned
    /\ OpenRoute(grid, PathSize, call.startX, call.startY, call.endX, call.endY)
    /\ ShortestSteps(grid, PathSize, call.startX, call.startY, call.endX, call.endY)
         > Manhattan(call.startX, call.startY, call.endX, call.endY)
    /\ Len(call.path) = ShortestSteps(grid, PathSize, call.startX, call.startY,
                                      call.endX, call.endY) + 1

\* C24: the number of lives is always between 0 and the initial lives,
\* whatever collisions one frame processes.
C24_LivesInRange == lives >= 0 /\ lives <= initialLives

Between(a, b, c) == (a <= b /\ b <= c) \/ (c <= b /\ b <= a)

\* the L from start to goal: the start's row between the two columns, then
\* the goal's column between the two rows
OnL(x, y, sx, sy, ex, ey) ==
    \/ y = sy /\ Between(sx, x, ex)
    \/ x = ex /\ Between(sy, y, ey)

\* C25: validatePath turns no Open cell into a Wall; it changes no cell when a
\* route from start to goal exists, and otherwise changes only cells of the L,
\* which it opens.
C25_ValidatePathFrame ==
    [][(call.op = "findPath" /\ call.state = "called" /\ call'.state = "validated") =>
          /\ \A c \in PathCells : grid[c[2]][c[1]] = 0 => grid'[c[2]][c[1]] = 0
          /\ OpenRoute(grid, PathSize, call.startX, call.startY, call.endX, call.endY)
                => grid' = grid
          /\ \A c \in PathCells :
                grid'[c[2]][c[1]] # grid[c[2]][c[1]] =>
                    /\ OnL(c[1], c[2], call.startX, call.startY, call.endX, call.endY)
                    /\ grid'[c[2]][c[1]] = 0]_vars

\* the fallback has run: the L is open and a wall off the L is still there
C25_Witness ==
    /\ call.op = "findPath"
    /\ call.state = "validated"
    /\ Len(call.path) = 0
    /\ \A c \in PathCells :
          OnL(c[1], c[2], call.startX, call.startY, call.endX, call.endY)
              => grid[c[2]][c[1]] = 0
    /\ \E c \in PathCells : grid[c[2]][c[1]] = 1
    /\ Manhattan(call.startX, call.startY, call.endX, call.endY) >= 3

\* the direct path generateSimpleMaze computes on the grid without walls
directPath == findPath(emptyGrid(gridSize), gridSize, 0, 0, goalPosition.x, goalPosition.y)

\* C26: on the levels 1 and 2 no tile of the direct path is a Wall in the grid
\* generateSimpleMaze leaves, neither by the pattern nor by the walls placed
\* next to the path, and the final validatePath finds a path and changes nothing.
C26_SimpleMazeKeepsPath ==
    (GridReturned /\ level <= 2) =>
        /\ call.generator = "generateSimpleMaze"
        /\ \A t \in tilesOf(directPath) : call.maze[t[2]][t[1]] = 0
        /\ Len(findPath(openStartAndGoal(call.maze, 0, 0, goalPosition.x, goalPosition.y),
                        gridSize, 0, 0, goalPosition.x, goalPosition.y)) > 0
        /\ grid = openStartAndGoal(call.maze, 0, 0, goalPosition.x, goalPosition.y)

\* a wall was placed next to the path where the pattern alone leaves none
C26_Witness ==
    /\ GridReturned
    /\ level <= 2
    /\ \E t \in tilesOf(directPath) :
          \E n \in Neighbours(gridSize, t) :
              /\ call.maze[n[2]][n[1]] = 1
              /\ simplePattern(emptyGrid(gridSize), level, gridSize, tilesOf(directPath),
                               goalPosition.x, goalPosition.y)[n[2]][n[1]] = 0

\* the winding path of the level: createWindingPath on the direct path, under
\* the draws that follow those of the goal
windingPath ==
    createWindingPath(directPath, call.tape, call.goalDraws, gridSize).path

\* the grid generateWindingMaze has built when it calls validatePath
windingGrid ==
    windingWalls(GenState(emptyGrid(gridSize), call.goalDraws), call.tape, level, gridSize,
                 0, 0, goalPosition.x, goalPosition.y).grid

\* C27: in generateWindingMaze every tile of the direct path is a tile of the
\* winding path, no tile of the winding path is a Wall when the walls have
\* been placed, and validatePath finds a path there and changes nothing.
C27_WindingPathStaysOpen ==
    (GridReturned /\ call.generator = "generateWindingMaze") =>
        /\ tilesOf(directPath) \subseteq tilesOf(windingPath)
        /\ \A t \in tilesOf(windingPath) : windingGrid[t[2]][t[1]] = 0
        /\ Len(findPath(windingGrid, gridSize, 0, 0, goalPosition.x, goalPosition.y)) > 0
        /\ call.maze = windingGrid

\* a winding level with a detour off the direct path and a wall next to the path
C27_Witness ==
    /\ GridReturned
    /\ call.generator = "generateWindingMaze"
    /\ tilesOf(windingPath) # tilesOf(directPath)
    /\ \E t \in tilesOf(windingPath) :
          \E n \in Neighbours(gridSize, t) : windingGrid[n[2]][n[1]] = 1
    /\ \A t \in tilesOf(windingPath) : call.maze[t[2]][t[1]] = 0

\* C28: the winding path createWindingPath returns is a Path: it starts at
\* the start, ends at the goal, and moves one orthogonal step at a time.
C28_WindingPathIsPath ==
    (GridReturned /\ call.generator = "generateWindingMaze") =>
        IsPathFromTo(windingPath, 0, 0, goalPosition.x, goalPosition.y)

\* the wall segments two adjacent rooms of the 3x3 arrangement share: the
\* cells of the dividing line along the common side of the two rooms
SharedSegments ==
    LET roomSize == gridSize \div 3
        side(r) == (r * roomSize + 1)..(r * roomSize + roomSize - 1)
    IN  { { <<(rx + 1) * roomSize, y>> : y \in side(ry) } : rx \in 0..1, ry \in 0..2 }
        \cup { { <<x, (ry + 1) * roomSize>> : x \in side(rx) } : rx \in 0..2, ry \in 0..1 }

OpenCellsOf(g, cells) == { c \in cells : g[c[2]][c[1]] = 0 }

\* the grid generateRoomMaze has built when it calls validatePath
roomGrid ==
    roomsBuilt(GenState(emptyGrid(gridSize), call.goalDraws), call.tape, gridSize,
               0, 0, goalPosition.x, goalPosition.y).grid

\* C29 as stated: in the grid generateRoomMaze leaves, each wall segment two
\* adjacent rooms share has exactly one Open cell.
C29_ExactlyOneDoor ==
    (GridReturned /\ call.generator = "generateRoomMaze") =>
        \A seg \in SharedSegments : Cardinality(OpenCellsOf(call.maze, seg)) = 1

\* C29 as amended: when generateRoomMaze has placed its obstacles each shared
\* segment has exactly one Open cell, its door; the generator's validatePath
\* keeps that cell Open, and any other cell of a segment it opens lies on the
\* L of its fallback corridor.
C29_DoorsKept ==
    (GridReturned /\ call.generator = "generateRoomMaze") =>
        \A seg \in SharedSegments :
            /\ Cardinality(OpenCellsOf(roomGrid, seg)) = 1
            /\ OpenCellsOf(roomGrid, seg) \subseteq OpenCellsOf(call.maze, seg)
            /\ \A c \in OpenCellsOf(call.maze, seg) \ OpenCellsOf(roomGrid, seg) :
                  OnL(c[1], c[2], 0, 0, goalPosition.x, goalPosition.y)

\* a room level whose obstacles came with a cluster cell, and whose fallback
\* corridor opened a second cell of a shared segment
C29_Witness ==
    /\ GridReturned
    /\ call.generator = "generateRoomMaze"
    /\ \E seg \in SharedSegments : Cardinality(OpenCellsOf(call.maze, seg)) = 2
    /\ \E y \in 1..(gridSize - 2), x \in 1..(gridSize - 3) :
          /\ x % (gridSize \div 3) # 0 /\ (x + 1) % (gridSize \div 3) # 0
          /\ y % (gridSize \div 3) # 0
          /\ roomGrid[y][x] = 1 /\ roomGrid[y][x + 1] = 1

----------------------------------------------------------------------------
(* C30: the rings of generateSpiralMaze *)

\* the sides of the rings 1..floor(N/2) that lie inside the grid, each as the
\* set of its cells <<x, y>>
RingSides ==
    LET center == gridSize \div 2
        span(ring) == { k \in (center - ring)..(center + ring) :
                          k >= 0 /\ k < gridSize }
        row(ring, y) == { <<x, y>> : x \in span(ring) }
        column(ring, x) == { <<x, y>> : y \in span(ring) }
    IN  { s \in UNION { { row(ring, center - ring), row(ring, center + ring),
                          column(ring, center - ring), column(ring, center + ring) } :
                        ring \in 1..(gridSize \div 2) } :
            \A c \in s : inBounds(gridSize, c[1], c[2]) }

\* the grid generateSpiralMaze has built when it calls validatePath
spiralGrid ==
    spiralBuilt(GenState(emptyGrid(gridSize), call.goalDraws), call.tape, gridSize,
                0, 0, goalPosition.x, goalPosition.y).grid

\* C30: when generateSpiralMaze has built its rings, every side of every ring
\* that lies inside the grid has at least one Open cell, and neither the start
\* cell nor the goal cell is a Wall.
C30_RingsNeverSealed ==
    (GridReturned /\ call.generator = "generateSpiralMaze") =>
        /\ \A s \in RingSides : OpenCellsOf(spiralGrid, s) # {}
        /\ spiralGrid[0][0] = 0
        /\ spiralGrid[goalPosition.y][goalPosition.x] = 0

\* a spiral level where some side of a ring is a Wall in every cell but one,
\* and the ring cells next to the start and to the goal are Walls
C30_Witness ==
    /\ GridReturned
    /\ call.generator = "generateSpiralMaze"
    /\ \E s \in RingSides : Cardinality(s) >= 3 /\ Cardinality(OpenCellsOf(spiralGrid, s)) = 1
    /\ spiralGrid[0][1] = 1
    /\ \E d \in {-1, 1} :
          /\ inBounds(gridSize, goalPosition.x + d, goalPosition.y)
          /\ spiralGrid[goalPosition.y][goalPosition.x + d] = 1

----------------------------------------------------------------------------
(* C31: the cells around start and goal in generateWindingMaze *)

\* the cells within one step, diagonals included, of <<cx, cy>>
Buffer(cx, cy) ==
    { c \in (0..(gridSize - 1)) \X (0..(gridSize - 1)) :
        Abs(c[1] - cx) <= 1 /\ Abs(c[2] - cy) <= 1 }

BufferCells == Buffer(0, 0) \cup Buffer(goalPosition.x, goalPosition.y)

\* the grid of generateWindingMaze when its density fill has ended
windingFilled ==
    LET winding == createWindingPath(directPath, call.tape, call.goalDraws, gridSize)
    IN  densityFill(GenState(emptyGrid(gridSize), winding.ri), call.tape, gridSize,
                    level, tilesOf(winding.path), 0, 0,
                    goalPosition.x, goalPosition.y).grid

\* the tiles of the winding path the strategic walls are placed around:
\* indices 2 .. length - 3 counted from 0
interiorTiles ==
    { <<windingPath[i].x, windingPath[i].y>> : i \in 3..(Len(windingPath) - 2) }

\* C31 as stated: in the grid generateWindingMaze leaves no cell within one
\* step of the start or of the goal is a Wall.
C31_BufferHasNoWall ==
    (GridReturned /\ call.generator = "generateWindingMaze") =>
        \A c \in BufferCells : call.maze[c[2]][c[1]] = 0

\* C31 as amended: when the density fill of generateWindingMaze has ended no
\* cell within one step of the start or of the goal is a Wall; a Wall there in
\* the grid the generator leaves is off the winding path and next to one of
\* the tiles the strategic walls are placed around.
C31_BufferKeptByFill ==
    (GridReturned /\ call.generator = "generateWindingMaze") =>
        \A c \in BufferCells :
            /\ windingFilled[c[2]][c[1]] = 0
            /\ call.maze[c[2]][c[1]] = 1 =>
                  /\ c \notin tilesOf(windingPath)
                  /\ \E t \in interiorTiles : c \in Neighbours(gridSize, t)

\* a winding level whose fill walled a cell outside the buffers and whose
\* strategic walls walled a cell inside one
C31_Witness ==
    /\ GridReturned
    /\ call.generator = "generateWindingMaze"
    /\ \E c \in BufferCells : call.maze[c[2]][c[1]] = 1
    /\ \E c \in ((0..(gridSize - 1)) \X (0..(gridSize - 1))) \ BufferCells :
          windingFilled[c[2]][c[1]] = 1

----------------------------------------------------------------------------
(* C32: where the player stands *)

\* C32: once a level has been generated the player's position is inside the
\* grid, is an Open cell, and is in the visited set.
C32_PlayerOnOpenVisitedCell ==
    grid # << >> =>
        /\ inBounds(gridSize, playerPosition.x, playerPosition.y)
        /\ grid[playerPosition.y][playerPosition.x] = 0
        /\ <<playerPosition.x, playerPosition.y>> \in visitedTiles

\* the player has moved off the start, next to a Wall and to the grid's edge,
\* in a level reached by completing the one before
C32_Witness ==
    /\ Playing(world)
    /\ level = 2
    /\ playerPosition # Pos(0, 0)
    /\ \E d \in Directions : candidateIs(d, 1)
    /\ \E d \in Directions : ~inBounds(gridSize, candidate(d).x, candidate(d).y)

----------------------------------------------------------------------------
(* C33: completing the level from where the player stands *)

\* the cells a sequence of accepted moves of world w reaches from the player,
\* found one move further at a time until the goal is among them or no move
\* adds a cell: each move enters an Open cell of the grid that, from level 2
\* on, is not in the visited set w has now
RECURSIVE AcceptedRegion(_, _, _)
RECURSIVE nextRegion(_, _, _)
AcceptedRegion(w, seen, frontier) ==
    IF frontier = {} \/ <<w.goalPosition.x, w.goalPosition.y>> \in seen THEN seen
    ELSE \* the cells one accepted move away from the frontier, not seen before
         LET proposed == UNION { { <<newPosition(Pos(c[1], c[2]), d).x,
                                     newPosition(Pos(c[1], c[2]), d).y>> :
                                   d \in Directions } : c \in frontier }
         IN  nextRegion(w, seen, { n \in proposed \ seen :
                                     isValidMove(w, n[1], n[2]).valid })

nextRegion(w, seen, entered) == AcceptedRegion(w, seen \cup entered, entered)

Completable(w) ==
    <<w.goalPosition.x, w.goalPosition.y>> \in
        AcceptedRegion(w, {<<w.playerPosition.x, w.playerPosition.y>>},
                          {<<w.playerPosition.x, w.playerPosition.y>>})

\* C33 as stated: in every Playing state a sequence of accepted moves takes the
\* player from its position to the goal.
C33_AlwaysCompletable == Playing(world) => Completable(world)

\* C33 as amended: in every Playing state an Open route leads from the player
\* to the goal, and a sequence of accepted moves does so on level 1 and in the
\* state a level generation leaves, where only the start is visited.
C33_CompletableWhileNothingBlocks ==
    Playing(world) =>
        \E w \in {world} :
            IF level = 1 THEN Completable(w)
            ELSE /\ Completable([w EXCEPT !.visitedTiles = {}])
                 /\ visitedTiles = {<<0, 0>>} => Completable(w)

\* on level 1 the player stands where the revisit rule of the later levels
\* would leave no accepted way to the goal
C33_Witness ==
    /\ Playing(world)
    /\ level = 1
    /\ playerPosition # Pos(0, 0)
    /\ Completable(world)
    /\ ~Completable([world EXCEPT !.level = 2])

----------------------------------------------------------------------------
(* C34: the animation loop *)

\* C34: at most one callback of animate is pending at any time.
C34_SingleAnimationLoop == animationFrames <= 1

----------------------------------------------------------------------------
(* C35: where spawnEnemy can place an enemy *)

\* the test of updateEnemies around its call of spawnEnemy, the draw apart,
\* and the test spawnEnemy starts with
spawnEnemyDue(w) ==
    /\ w.isPlaying /\ ~w.isGameOver
    /\ Len(w.enemies) < w.level \div 2

\* the cells the retry loop of spawnEnemy accepts
spawnCells(w) ==
    { c \in (0..(gridSize - 1)) \X (0..(gridSize - 1)) :
        /\ Abs(c[1] - w.playerPosition.x) + Abs(c[2] - w.playerPosition.y) > 5
        /\ w.grid[c[2]][c[1]] # 1 }

\* C35: whenever spawnEnemy can be invoked the grid has a cell that is not a
\* Wall and more than 5 steps from the player, so that its retry loop can end.
C35_SpawnCellExists == spawnEnemyDue(world) => spawnCells(world) # {}

----------------------------------------------------------------------------
(* C36: the start overlay and the Start button *)

\* the start overlay can be seen: it is not hidden and the loading overlay,
\* which lies over it, is
startOverlayVisible == ~startOverlayHidden /\ call.loadingOverlayHidden

\* C36: whenever the start overlay is visible the click handler of the Start
\* button is attached.
C36_StartButtonWired == startOverlayVisible => call.startListener

----------------------------------------------------------------------------
(* C37: the colour of the player after the flashes *)

\* C37: once every flash timer has fired the player has its original colour.
C37_ColourRestored == call.flashTimers = << >> => call.color = "0x00ff00"

----------------------------------------------------------------------------
(* C38: the corridor of every room level *)

\* C38: in every level generateRoomMaze builds the start is enclosed by
\* dividing walls, the generator's validatePath finds no path and carves its
\* corridor, and in the published grid row 0 from the start to the goal's
\* column and the goal's column from row 0 down to the goal are Open.
C38_RoomLevelHasCorridor ==
    (GridReturned /\ call.generator = "generateRoomMaze") =>
        /\ \A n \in Neighbours(gridSize, <<0, 0>>) : roomGrid[n[2]][n[1]] = 1
        /\ Len(findPath(roomGrid, gridSize, 0, 0, goalPosition.x, goalPosition.y)) = 0
        /\ \A x \in 0..goalPosition.x : grid[0][x] = 0
        /\ \A y \in 0..goalPosition.y : grid[y][goalPosition.x] = 0

\* a room level with a drawn goal, whose first row is still a Wall beyond the
\* goal's column and whose corridor opened a cell of a dividing wall
C38_Witness ==
    /\ GridReturned
    /\ call.generator = "generateRoomMaze"
    /\ level >= 5
    /\ \E x \in (goalPosition.x + 1)..(gridSize - 1) : grid[0][x] = 1
    /\ \E y \in 1..(goalPosition.y - 1) :
          roomGrid[y][goalPosition.x] = 1 /\ grid[y][goalPosition.x] = 0

====
